---- MODULE Spec2Model ----
(***************************************************************************)
(* Model of the authentication / session subsystem of the task-management  *)
(* API (apps/api/src/services/auth.service.ts together with lib/jwt.ts,    *)
(* lib/crypto.ts and the Prisma schema of the init migration).             *)
(*                                                                         *)
(* The store is modelled table by table as sets of rows.  Spec runs every  *)
(* service call to completion as one action; SpecC runs refreshTokens one  *)
(* await at a time in two request handlers.                                *)
(***************************************************************************)
EXTENDS Integers, Sequences, FiniteSets, TLC

(* ---------------------------- bounds --------------------------------- *)

\* rows the users table ever receives
MaxUsers == 2
\* rows the refresh_tokens table ever receives
MaxRefresh == 3
\* opaque (verification / reset) tokens ever generated
MaxOpaque == 3
\* last clock value explored, in ticks
MaxTime == 3
\* clock ticks that may pass while one call waits for the store
MaxLatency == 2

\* rows the tasks table ever receives
MaxTasks == 1
\* rows the groups table ever receives
MaxGroups == 2

\* clock ticks per second: Date.now() is finer than the JWT iat/exp seconds
TicksPerSecond == 2
\* access-token lifetime in seconds (900 by default), scaled down
JWT_ACCESS_EXPIRY_SECONDS == 1
\* refresh-token lifetime in seconds (604800 by default), scaled down
JWT_REFRESH_EXPIRY_SECONDS == 1
\* lifetime of a password-reset token in ticks (15 minutes), scaled down
ResetTokenTtl == 1
\* lifetime of a verification token in ticks (24 hours), scaled down
VerificationTokenTtl == 2

Emails == {"a@x.io", "b@x.io"}
Passwords == {"pw1", "pw2"}
\* the passwords accounts are registered with
RegisterPasswords == {"pw1"}
\* the passwords a reset sets
ResetPasswords == {"pw2"}
Procs == {"h1", "h2"}
Groups == {1, 2}
Titles == {"t1", "t2"}

(* ---------------------------- state ---------------------------------- *)

VARIABLES
    users,                \* table users
    refreshTokens,        \* table refresh_tokens
    verificationTokens,   \* table verification_tokens
    passwordResetTokens,  \* table password_reset_tokens
    now,                  \* the wall clock, in ticks
    nUser, nRefresh, nFamily, nOpaque,   \* randomUUID / randomBytes draws so far
    issued,               \* refresh JWTs handed to clients so far
    mailed,               \* raw opaque tokens handed out so far
    last,                 \* the call that completed last and its outcome
    scen,                 \* monitor: the latest successful rotation T1 -> T2
    pc, loc,              \* SpecC: position and locals of each request handler
    config,               \* NODE_ENV and the feature flags the process started with
    groupMembers,         \* table group_members
    tasks,                \* table tasks
    nTask,                \* randomUUID draws for tasks so far
    fpc, floc,            \* SpecF: position and locals of each token-flow handler
    used,                 \* SpecF monitor: the raw tokens a call has succeeded with
    jobs,                 \* the jobs of the BullMQ queue "email"
    groups,               \* table groups
    nGroup,               \* randomUUID draws for groups so far
    gpc, gloc,            \* SpecGC: position and locals of each removeMember handler
    cookies,              \* the cookie jar of one browser
    tpc, tloc             \* position and locals of each task-service handler

vars == <<users, refreshTokens, verificationTokens, passwordResetTokens, now,
          nUser, nRefresh, nFamily, nOpaque, issued, mailed, last, scen, pc, loc,
          config, groupMembers, tasks, nTask, fpc, floc, used, jobs,
          groups, nGroup, gpc, gloc, cookies, tpc, tloc>>

\* what the authentication calls leave alone
ext == <<config, groupMembers, tasks, nTask, fpc, floc, used, jobs,
         groups, nGroup, gpc, gloc, cookies, tpc, tloc>>

\* what the token-issuing calls leave alone; their routes write the queue
mailFrame == <<config, groupMembers, tasks, nTask, fpc, floc, used,
               groups, nGroup, gpc, gloc, cookies, tpc, tloc>>

db == <<users, refreshTokens, verificationTokens, passwordResetTokens>>

(* ---------------------------- values --------------------------------- *)

\* SQL NULL of a nullable timestamp column
NullTime == -1
\* the timestamp an operator writes to deletedAt; the API reads only its presence
DeletedTime == 0
\* SQL NULL of the nullable passwordHash column
NullHash == <<>>

\* the absence of a JWT
NoToken == [sub |-> 0, tokenId |-> 0, family |-> 0, iat |-> 0, exp |-> 0, sig |-> "none"]

NoRow == [id |-> 0, tokenHash |-> <<>>, userId |-> 0, family |-> 0,
          revoked |-> FALSE, expiresAt |-> 0]

NoUser == [id |-> 0, email |-> "", passwordHash |-> NullHash,
           status |-> "NONE", deletedAt |-> NullTime]

\* the absence of a verification_tokens / password_reset_tokens row
NoOpaqueRow == [id |-> 0, tokenHash |-> <<>>, userId |-> 0, expiresAt |-> 0]

\* the absence of an access token
NoAccess == [sub |-> 0, email |-> "", status |-> "NONE"]

\* the environment defaults of config/env.ts; NODE_ENV as process.env holds it
DefaultConfig == [NODE_ENV |-> "development", ENABLE_EMAIL |-> FALSE,
                  ENABLE_ASSIGNMENTS |-> FALSE, ENABLE_PASSWORD_RESET |-> FALSE]

(* ---------------------------- lib/crypto.ts -------------------------- *)

\* SHA-256 of a token string: injective for the model's purposes
hashToken(token) == <<"sha256", token>>

\* randomBytes(32).toString("hex") and its hash; n is the draw number
generateOpaqueToken(n) == [raw |-> n, hash |-> hashToken(n)]

(* ---------------------------- lib/password.js ------------------------ *)

hashPassword(password) == <<"pwhash", password>>

verifyPassword(hash, password) == hash = hashPassword(password)

(* ---------------------------- lib/jwt.ts ----------------------------- *)

\* the claims of an access token: { sub, email, status }
signAccessToken(userId, email, status) ==
    [sub |-> userId, email |-> email, status |-> status]

\* Math.floor(Date.now() / 1000)
ClockSeconds(t) == t \div TicksPerSecond

signRefreshToken(userId, tokenId, family, t) ==
    [sub |-> userId, tokenId |-> tokenId, family |-> family,
     iat |-> ClockSeconds(t),
     exp |-> ClockSeconds(t) + JWT_REFRESH_EXPIRY_SECONDS,
     sig |-> "ok"]

\* jwt.verify: the signature must be the server's and exp must lie ahead
verifyRefreshToken(token, t) ==
    /\ token.sig = "ok"
    /\ ClockSeconds(t) < token.exp

\* a token whose payload or signature was altered by its holder
Tampered(token) == [token EXCEPT !.sig = "bad"]

(* ---------------------------- store helpers -------------------------- *)

UserByEmail(email) == {u \in users : u.email = email}

UserById(id) == {u \in users : u.id = id}

\* prisma.refreshToken.findFirst({ where: { tokenHash, userId } })
FindRefresh(rt, tokenHash, userId) ==
    {r \in rt : r.tokenHash = tokenHash /\ r.userId = userId}

\* updateMany with the where clause lost: every row is revoked
RevokeFamily_NoWhere(rt, family) == {[r EXCEPT !.revoked = TRUE] : r \in rt}

\* prisma.refreshToken.updateMany({ where: { family }, data: { revoked: true } })
RevokeFamily(rt, family) ==
    {IF r.family = family THEN [r EXCEPT !.revoked = TRUE] ELSE r : r \in rt}

\* the update that revokes the presented token left out
RevokeOne_Skipped(rt, id) == rt

\* prisma.refreshToken.update({ where: { id }, data: { revoked: true } })
RevokeOne(rt, id) ==
    {IF r.id = id THEN [r EXCEPT !.revoked = TRUE] ELSE r : r \in rt}

\* prisma.refreshToken.updateMany({ where: { userId }, data: { revoked: true } })
RevokeUser(rt, userId) ==
    {IF r.userId = userId THEN [r EXCEPT !.revoked = TRUE] ELSE r : r \in rt}

Family(rt, family) == {r \in rt : r.family = family}

Live(rt, family) == {r \in rt : r.family = family /\ ~r.revoked}

(* ---------------------------- call record ---------------------------- *)

\* op: the call, res: "OK" or the error code, branch: the path taken inside it
NoCall == [op |-> "none", res |-> "NONE", status |-> 0, message |-> "", branch |-> "",
           access |-> NoAccess, token |-> 0, rows |-> {}, total |-> 0]

Ok(op) == [NoCall EXCEPT !.op = op, !.res = "OK", !.status = 200]

\* new AuthError(code, message, statusCode) as the route handler reports it
AuthError(op, code, message, statusCode) ==
    [NoCall EXCEPT !.op = op, !.res = code, !.status = statusCode, !.message = message]

NoScen == [stage |-> 0, t1 |-> NoToken, t2 |-> NoToken]

NoLoc == [tok |-> NoToken, stored |-> NoRow, found |-> FALSE, recId |-> 0,
          res |-> "NONE", out |-> NoToken]

\* the locals of a removeMember handler
NoRemoval == [groupId |-> 0, target |-> 0, actor |-> 0, role |-> "", adminCount |-> 0,
              res |-> "NONE"]

\* an empty cookie jar: no access_token (with the exp claim the JWT carries)
\* and no refresh_token cookie
NoCookies == [access_token |-> [token |-> NoAccess, exp |-> 0],
              refresh_token |-> NoToken]

\* the absence of a tasks row
NoTask == [id |-> 0, title |-> "", status |-> "NONE", groupId |-> 0, createdById |-> 0,
           assigneeId |-> 0, acceptedAt |-> NullTime, deletedAt |-> NullTime]

\* the locals of a task-service handler: its arguments and the row it read
NoTaskLoc == [op |-> "none", taskId |-> 0, userId |-> 0, arg |-> 0, task |-> NoTask,
              res |-> "NONE"]

\* the locals of a token-flow handler
NoFlow == [op |-> "none", raw |-> 0, stored |-> NoOpaqueRow, userId |-> 0,
           res |-> "NONE"]

(* ---------------------------- initial state -------------------------- *)

Init ==
    /\ users = {}
    /\ refreshTokens = {}
    /\ verificationTokens = {}
    /\ passwordResetTokens = {}
    /\ now = 0
    /\ nUser = 0 /\ nRefresh = 0 /\ nFamily = 0 /\ nOpaque = 0
    /\ issued = {}
    /\ mailed = {}
    /\ last = NoCall
    /\ scen = NoScen
    /\ pc = [p \in Procs |-> "idle"]
    /\ loc = [p \in Procs |-> NoLoc]
    /\ config = DefaultConfig
    /\ groupMembers = {}
    /\ tasks = {}
    /\ nTask = 0
    /\ fpc = [p \in Procs |-> "idle"]
    /\ floc = [p \in Procs |-> NoFlow]
    /\ used = {}
    /\ jobs = {}
    /\ groups = {}
    /\ nGroup = 0
    /\ gpc = [p \in Procs |-> "idle"]
    /\ gloc = [p \in Procs |-> NoRemoval]
    /\ cookies = NoCookies
    /\ tpc = [p \in Procs |-> "idle"]
    /\ tloc = [p \in Procs |-> NoTaskLoc]

(* ---------------------------- registerUser --------------------------- *)

RegisterUser(email, password) ==
    /\ UNCHANGED <<refreshTokens, passwordResetTokens, now, nRefresh, nFamily,
                   issued, scen, pc, loc, ext>>
    /\ IF UserByEmail(email) # {}
       THEN /\ last' = AuthError("register", "EMAIL_EXISTS",
                                 "A user with this email already exists", 409)
            /\ UNCHANGED <<users, verificationTokens, nUser, nOpaque, mailed>>
       ELSE /\ nUser < MaxUsers
            /\ nOpaque < MaxOpaque
            /\ LET id == nUser + 1
                   t  == generateOpaqueToken(nOpaque + 1)
               IN /\ users' = users \cup
                        {[id |-> id, email |-> email,
                          passwordHash |-> hashPassword(password),
                          status |-> "UNVERIFIED", deletedAt |-> NullTime]}
                  /\ verificationTokens' = verificationTokens \cup
                        {[id |-> nOpaque + 1, tokenHash |-> t.hash, userId |-> id,
                          expiresAt |-> now + VerificationTokenTtl]}
                  /\ nUser' = id
                  /\ nOpaque' = nOpaque + 1
                  /\ mailed' = mailed \cup {[kind |-> "verification", raw |-> t.raw]}
                  /\ last' = [Ok("register") EXCEPT !.status = 201]

(* ---------------------------- createTokenPair ------------------------ *)

\* the row createTokenPair leaves in refresh_tokens: created at t with an
\* empty tokenHash, then updated with the hash of the signed JWT
RefreshRow(id, userId, family, jwt, t) ==
    [id |-> id, tokenHash |-> hashToken(jwt), userId |-> userId, family |-> family,
     revoked |-> FALSE,
     expiresAt |-> t + JWT_REFRESH_EXPIRY_SECONDS * TicksPerSecond]

\* family ?? randomUUID(): family 0 stands for an absent argument
TokenFamily(family) == IF family = 0 THEN nFamily + 1 ELSE family

\* createTokenPair(userId, email, status, family) on table rt at time t
CreateTokenPair(rt, userId, family, t) ==
    LET id  == nRefresh + 1
        fam == TokenFamily(family)
        jwt == signRefreshToken(userId, id, fam, t)
    IN [rows |-> rt \cup {RefreshRow(id, userId, fam, jwt, t)},
        refreshToken |-> jwt]

(* ---------------------------- loginUser ------------------------------ *)

LoginUnknownError ==
    AuthError("login", "INVALID_CREDENTIALS", "Invalid email or password", 401)

LoginDeletedError ==
    AuthError("login", "ACCOUNT_DELETED", "This account has been deactivated", 401)

LoginSuspendedError ==
    AuthError("login", "ACCOUNT_SUSPENDED", "This account has been suspended", 403)

\* a wrong password reported in words of its own
LoginBadPasswordError_Distinct ==
    AuthError("login", "INVALID_CREDENTIALS", "Incorrect password", 401)

LoginBadPasswordError ==
    AuthError("login", "INVALID_CREDENTIALS", "Invalid email or password", 401)

\* the checks of loginUser in source order; Ok("login") when all pass
LoginCheck(email, password) ==
    LET m == UserByEmail(email)
        user == IF m = {} THEN NoUser ELSE CHOOSE u \in m : TRUE
    IN IF m = {} \/ user.passwordHash = NullHash THEN LoginUnknownError
       ELSE IF user.deletedAt # NullTime THEN LoginDeletedError
       ELSE IF user.status = "SUSPENDED" THEN LoginSuspendedError
       ELSE IF ~verifyPassword(user.passwordHash, password) THEN LoginBadPasswordError
       ELSE Ok("login")

\* what the login route sends: status, problem title and detail
Response(call) == [status |-> call.status, title |-> call.res, detail |-> call.message]

LoginUser(email, password) ==
    LET c == LoginCheck(email, password)
    IN /\ UNCHANGED <<users, verificationTokens, passwordResetTokens, now, nUser,
                      nOpaque, mailed, scen, pc, loc, ext>>
       /\ IF c.res # "OK"
          THEN /\ last' = c
               /\ UNCHANGED <<refreshTokens, nRefresh, nFamily, issued>>
          ELSE /\ nRefresh < MaxRefresh
               /\ LET user == CHOOSE u \in UserByEmail(email) : TRUE
                      pair == CreateTokenPair(refreshTokens, user.id, 0, now)
                  IN /\ refreshTokens' = pair.rows
                     /\ nRefresh' = nRefresh + 1
                     /\ nFamily' = nFamily + 1
                     /\ issued' = issued \cup {pair.refreshToken}
                     /\ last' = [c EXCEPT !.access =
                                    signAccessToken(user.id, user.email, user.status)]

(* ---------------------------- refreshTokens -------------------------- *)

\* the check of storedToken.revoked left out
RefreshBranch_NoRevokedCheck(rt, us, tok, t, t2) ==
    LET found == FindRefresh(rt, hashToken(tok), tok.sub)
        storedToken == IF found = {} THEN NoRow ELSE CHOOSE r \in found : TRUE
        user == {u \in us : u.id = tok.sub /\ u.deletedAt = NullTime}
    IN IF ~verifyRefreshToken(tok, t) THEN "INVALID_TOKEN"
       ELSE IF found = {} THEN "NOT_FOUND"
       ELSE IF storedToken.expiresAt < t2 THEN "TOKEN_EXPIRED"
       ELSE IF user = {} THEN "USER_NOT_FOUND"
       ELSE "ROTATE"

\* refreshTokens refusing a SUSPENDED user the way it refuses a deleted one
RefreshBranch_ChecksStatus(rt, us, tok, t, t2) ==
    LET found == FindRefresh(rt, hashToken(tok), tok.sub)
        storedToken == IF found = {} THEN NoRow ELSE CHOOSE r \in found : TRUE
        user == {u \in us : u.id = tok.sub /\ u.deletedAt = NullTime /\
                              u.status # "SUSPENDED"}
    IN IF ~verifyRefreshToken(tok, t) THEN "INVALID_TOKEN"
       ELSE IF found = {} THEN "NOT_FOUND"
       ELSE IF storedToken.revoked THEN "REVOKED"
       ELSE IF storedToken.expiresAt < t2 THEN "TOKEN_EXPIRED"
       ELSE IF user = {} THEN "USER_NOT_FOUND"
       ELSE "ROTATE"

\* the branch refreshTokens takes for token tok: verified at time t, the
\* stored row's expiry compared at time t2 (after the findFirst await)
RefreshBranch(rt, us, tok, t, t2) ==
    LET found == FindRefresh(rt, hashToken(tok), tok.sub)
        storedToken == IF found = {} THEN NoRow ELSE CHOOSE r \in found : TRUE
        user == {u \in us : u.id = tok.sub /\ u.deletedAt = NullTime}
    IN IF ~verifyRefreshToken(tok, t) THEN "INVALID_TOKEN"
       ELSE IF found = {} THEN "NOT_FOUND"
       ELSE IF storedToken.revoked THEN "REVOKED"
       ELSE IF storedToken.expiresAt < t2 THEN "TOKEN_EXPIRED"
       ELSE IF user = {} THEN "USER_NOT_FOUND"
       ELSE "ROTATE"

\* the not-found branch reported as an invalid token instead of as reuse
RefreshError_NotFoundInvalid(branch) ==
    CASE branch \in {"INVALID_TOKEN", "NOT_FOUND"} ->
            AuthError("refresh", "INVALID_TOKEN", "Invalid refresh token", 401)
      [] branch = "REVOKED" ->
            AuthError("refresh", "TOKEN_REUSE", "Refresh token has been revoked", 401)
      [] branch = "TOKEN_EXPIRED" ->
            AuthError("refresh", "TOKEN_EXPIRED", "Refresh token has expired", 401)
      [] branch = "USER_NOT_FOUND" ->
            AuthError("refresh", "USER_NOT_FOUND", "User not found", 401)
      [] OTHER -> Ok("refresh")

RefreshError(branch) ==
    CASE branch = "INVALID_TOKEN" ->
            AuthError("refresh", "INVALID_TOKEN", "Invalid refresh token", 401)
      [] branch \in {"NOT_FOUND", "REVOKED"} ->
            AuthError("refresh", "TOKEN_REUSE", "Refresh token has been revoked", 401)
      [] branch = "TOKEN_EXPIRED" ->
            AuthError("refresh", "TOKEN_EXPIRED", "Refresh token has expired", 401)
      [] branch = "USER_NOT_FOUND" ->
            AuthError("refresh", "USER_NOT_FOUND", "User not found", 401)
      [] OTHER -> Ok("refresh")

\* reuse detected, but only the presented token is revoked, not its family
RefreshWrites_OnlyPresented(rt, tok, branch) ==
    LET found == FindRefresh(rt, hashToken(tok), tok.sub)
    IN CASE branch = "REVOKED" -> RevokeOne(rt, (CHOOSE r \in found : TRUE).id)
         [] branch = "NOT_FOUND" -> rt
         [] branch \in {"USER_NOT_FOUND", "ROTATE"} ->
                RevokeOne(rt, (CHOOSE r \in found : TRUE).id)
         [] OTHER -> rt

\* the refresh_tokens table after the writes of the failing branches and, for a
\* rotation, after the presented token is revoked
RefreshWrites(rt, tok, branch) ==
    LET found == FindRefresh(rt, hashToken(tok), tok.sub)
    IN CASE branch \in {"NOT_FOUND", "REVOKED"} -> RevokeFamily(rt, tok.family)
         [] branch \in {"USER_NOT_FOUND", "ROTATE"} ->
                RevokeOne(rt, (CHOOSE r \in found : TRUE).id)
         [] OTHER -> rt

\* the monitor follows the latest rotation T1 -> T2 and the replays after it
ScenAfter(tok, call, out) ==
    IF call.res = "OK" THEN [stage |-> 1, t1 |-> tok, t2 |-> out]
    ELSE IF scen.stage = 1 /\ tok = scen.t1 /\ call.res = "TOKEN_REUSE"
         THEN [scen EXCEPT !.stage = 2]
    ELSE IF scen.stage = 2 /\ tok = scen.t2
         THEN [scen EXCEPT !.stage = 3]
    ELSE scen

\* the access token signed with the status the users row held at registration
AccessFor_StatusAtRegistration(us, userId) ==
    LET user == CHOOSE u \in us : u.id = userId
    IN signAccessToken(user.id, user.email, "UNVERIFIED")

\* createTokenPair(user.id, user.email, user.status, ...): the access token of
\* the users row as refreshTokens has just read it
AccessFor(us, userId) ==
    LET user == CHOOSE u \in us : u.id = userId
    IN signAccessToken(user.id, user.email, user.status)

RefreshTokens(tok, d) ==
    LET branch == RefreshBranch(refreshTokens, users, tok, now, now + d)
        c == [RefreshError(branch) EXCEPT !.branch = branch]
    IN /\ now + d <= MaxTime
       /\ now' = now + d
       /\ UNCHANGED <<users, verificationTokens, passwordResetTokens, nUser,
                      nFamily, nOpaque, mailed, pc, loc, ext>>
       /\ IF branch # "ROTATE"
          THEN /\ refreshTokens' = RefreshWrites(refreshTokens, tok, branch)
               /\ last' = c
               /\ scen' = ScenAfter(tok, c, NoToken)
               /\ UNCHANGED <<nRefresh, issued>>
          ELSE /\ nRefresh < MaxRefresh
               /\ LET pair == CreateTokenPair(
                                  RefreshWrites(refreshTokens, tok, branch),
                                  tok.sub, tok.family, now + d)
                  IN /\ refreshTokens' = pair.rows
                     /\ nRefresh' = nRefresh + 1
                     /\ issued' = issued \cup {pair.refreshToken}
                     /\ last' = [c EXCEPT !.access = AccessFor(users, tok.sub)]
                     /\ scen' = ScenAfter(tok, c, pair.refreshToken)

(* ---------------------------- logoutUser ----------------------------- *)

\* logout revoking the presented token only, not its family
LogoutWrites_OnlyPresented(rt, tok, userId) ==
    LET found == FindRefresh(rt, hashToken(tok), userId)
    IN IF tok # NoToken /\ found # {}
       THEN RevokeOne(rt, (CHOOSE r \in found : TRUE).id)
       ELSE rt

\* rawRefreshToken may be undefined: NoToken
LogoutWrites(rt, tok, userId) ==
    LET found == FindRefresh(rt, hashToken(tok), userId)
    IN IF tok # NoToken /\ found # {}
       THEN RevokeFamily(rt, (CHOOSE r \in found : TRUE).family)
       ELSE rt

LogoutUser(tok, userId) ==
    /\ refreshTokens' = LogoutWrites(refreshTokens, tok, userId)
    /\ last' = [Ok("logout") EXCEPT !.branch =
                  IF tok = NoToken THEN "NO_TOKEN"
                  ELSE IF FindRefresh(refreshTokens, hashToken(tok), userId) = {}
                       THEN "NOT_STORED" ELSE "FAMILY_REVOKED"]
    /\ UNCHANGED <<users, verificationTokens, passwordResetTokens, now, nUser,
                   nRefresh, nFamily, nOpaque, issued, mailed, scen, pc, loc, ext>>

(* ---------------------------- requestPasswordReset ------------------- *)

\* the reads and writes of requestPasswordReset(email)
RequestPasswordResetCall(email) ==
    LET m == {u \in UserByEmail(email) : u.deletedAt = NullTime}
    IN /\ UNCHANGED <<users, refreshTokens, verificationTokens, now, nUser, nRefresh,
                      nFamily, issued, scen, pc, loc, mailFrame>>
       /\ IF m = {}
          THEN /\ last' = [Ok("requestPasswordReset") EXCEPT !.branch = "NO_USER"]
               /\ UNCHANGED <<passwordResetTokens, nOpaque, mailed>>
          ELSE /\ nOpaque < MaxOpaque
               /\ LET user == CHOOSE u \in m : TRUE
                      t == generateOpaqueToken(nOpaque + 1)
                  IN /\ passwordResetTokens' =
                            {r \in passwordResetTokens : r.userId # user.id} \cup
                            {[id |-> nOpaque + 1, tokenHash |-> t.hash,
                              userId |-> user.id, expiresAt |-> now + ResetTokenTtl]}
                     /\ nOpaque' = nOpaque + 1
                     /\ mailed' = mailed \cup {[kind |-> "reset", raw |-> t.raw]}
                     /\ last' = [Ok("requestPasswordReset") EXCEPT
                                    !.branch = "ISSUED", !.token = t.raw]

\* requestPasswordReset(email) called on its own: the service never adds a job
RequestPasswordReset(email) == RequestPasswordResetCall(email) /\ UNCHANGED jobs

(* ---------------------------- resetPassword -------------------------- *)

ResetBranch(prt, rawToken, t) ==
    LET found == {r \in prt : r.tokenHash = hashToken(rawToken)}
    IN IF found = {} THEN "INVALID_TOKEN"
       ELSE IF (CHOOSE r \in found : TRUE).expiresAt < t THEN "TOKEN_EXPIRED"
       ELSE "RESET"

\* the transaction without its third statement: sessions survive the reset
ResetTransaction_NoRevoke(us, prt, rt, stored, passwordHash) ==
    [users |-> {IF u.id = stored.userId
                THEN [u EXCEPT !.passwordHash = passwordHash] ELSE u : u \in us},
     passwordResetTokens |-> {r \in prt : r.id # stored.id},
     refreshTokens |-> rt]

\* prisma.$transaction([user.update, passwordResetToken.delete,
\*                      refreshToken.updateMany]) as one write of three tables
ResetTransaction(us, prt, rt, stored, passwordHash) ==
    [users |-> {IF u.id = stored.userId
                THEN [u EXCEPT !.passwordHash = passwordHash] ELSE u : u \in us},
     passwordResetTokens |-> {r \in prt : r.id # stored.id},
     refreshTokens |-> RevokeUser(rt, stored.userId)]

ResetPassword(rawToken, newPassword) ==
    LET branch == ResetBranch(passwordResetTokens, rawToken, now)
        found == {r \in passwordResetTokens : r.tokenHash = hashToken(rawToken)}
    IN /\ UNCHANGED <<verificationTokens, now, nUser, nRefresh, nFamily, nOpaque,
                      issued, mailed, scen, pc, loc, ext>>
       /\ CASE branch = "INVALID_TOKEN" ->
                 /\ last' = AuthError("resetPassword", "INVALID_TOKEN",
                                      "Invalid or expired reset token", 400)
                 /\ UNCHANGED <<users, passwordResetTokens, refreshTokens>>
            [] branch = "TOKEN_EXPIRED" ->
                 LET stored == CHOOSE r \in found : TRUE
                 IN /\ passwordResetTokens' = {r \in passwordResetTokens : r.id # stored.id}
                    /\ last' = AuthError("resetPassword", "TOKEN_EXPIRED",
                                         "Reset token has expired", 400)
                    /\ UNCHANGED <<users, refreshTokens>>
            [] OTHER ->
                 LET stored == CHOOSE r \in found : TRUE
                     tx == ResetTransaction(users, passwordResetTokens, refreshTokens,
                                            stored, hashPassword(newPassword))
                 IN /\ users' = tx.users
                    /\ passwordResetTokens' = tx.passwordResetTokens
                    /\ refreshTokens' = tx.refreshTokens
                    /\ last' = Ok("resetPassword")

(* ---------------------------- the store's other writers -------------- *)

\* users.status is set to SUSPENDED by an operator, never by the API
SuspendUser(id) ==
    /\ \E u \in users : u.id = id /\ u.status # "SUSPENDED"
    /\ users' = {IF u.id = id THEN [u EXCEPT !.status = "SUSPENDED"] ELSE u : u \in users}
    /\ last' = [NoCall EXCEPT !.op = "operator"]
    /\ UNCHANGED <<refreshTokens, verificationTokens, passwordResetTokens, now, nUser,
                   nRefresh, nFamily, nOpaque, issued, mailed, scen, pc, loc, ext>>

\* users.deletedAt is set by an operator, never by the API
SoftDeleteUser(id) ==
    /\ \E u \in users : u.id = id /\ u.deletedAt = NullTime
    /\ users' = {IF u.id = id THEN [u EXCEPT !.deletedAt = DeletedTime] ELSE u : u \in users}
    /\ last' = [NoCall EXCEPT !.op = "operator"]
    /\ UNCHANGED <<refreshTokens, verificationTokens, passwordResetTokens, now, nUser,
                   nRefresh, nFamily, nOpaque, issued, mailed, scen, pc, loc, ext>>

\* DELETE of a users row: the three token tables cascade
HardDeleteUser(id) ==
    /\ \E u \in users : u.id = id
    /\ users' = {u \in users : u.id # id}
    /\ refreshTokens' = {r \in refreshTokens : r.userId # id}
    /\ verificationTokens' = {r \in verificationTokens : r.userId # id}
    /\ passwordResetTokens' = {r \in passwordResetTokens : r.userId # id}
    /\ last' = [NoCall EXCEPT !.op = "operator"]
    /\ UNCHANGED <<now, nUser, nRefresh, nFamily, nOpaque, issued, mailed, scen, pc, loc, ext>>

\* a users row of a Google sign-in: googleId set, passwordHash NULL
CreateOAuthUser(email) ==
    /\ UserByEmail(email) = {}
    /\ nUser < MaxUsers
    /\ users' = users \cup {[id |-> nUser + 1, email |-> email, passwordHash |-> NullHash,
                            status |-> "ACTIVE", deletedAt |-> NullTime]}
    /\ nUser' = nUser + 1
    /\ last' = [NoCall EXCEPT !.op = "operator"]
    /\ UNCHANGED <<refreshTokens, verificationTokens, passwordResetTokens, now,
                   nRefresh, nFamily, nOpaque, issued, mailed, scen, pc, loc, ext>>

Tick ==
    /\ now < MaxTime
    /\ now' = now + 1
    /\ last' = [NoCall EXCEPT !.op = "tick"]
    /\ UNCHANGED <<db, nUser, nRefresh, nFamily, nOpaque, issued, mailed, scen, pc, loc, ext>>

\* what clients can present: every JWT the server ever returned, and altered copies
PresentableTokens == issued \cup {Tampered(t) : t \in issued}

UserIds == 1..MaxUsers

(* ---------------------------- refreshTokens, await by await ---------- *)

\* verifyRefreshToken, then the findFirst read
RefreshFind(p, tok) ==
    /\ pc[p] \in {"idle", "done"}
    /\ IF ~verifyRefreshToken(tok, now)
       THEN /\ pc' = [pc EXCEPT ![p] = "done"]
            /\ loc' = [loc EXCEPT ![p] = [NoLoc EXCEPT !.tok = tok, !.res = "INVALID_TOKEN"]]
       ELSE LET found == FindRefresh(refreshTokens, hashToken(tok), tok.sub)
            IN /\ pc' = [pc EXCEPT ![p] = "decide"]
               /\ loc' = [loc EXCEPT ![p] =
                            [NoLoc EXCEPT !.tok = tok, !.found = (found # {}),
                                          !.stored = IF found = {} THEN NoRow
                                                     ELSE CHOOSE r \in found : TRUE]]
    /\ UNCHANGED <<db, now, nUser, nRefresh, nFamily, nOpaque, issued, mailed, last, scen, ext>>

\* the branches on storedToken, up to the write each ends with
RefreshDecide(p) ==
    /\ pc[p] = "decide"
    /\ LET l == loc[p]
       IN IF ~l.found \/ l.stored.revoked
          THEN /\ refreshTokens' = RevokeFamily(refreshTokens, l.tok.family)
               /\ pc' = [pc EXCEPT ![p] = "done"]
               /\ loc' = [loc EXCEPT ![p].res = "TOKEN_REUSE"]
          ELSE IF l.stored.expiresAt < now
          THEN /\ pc' = [pc EXCEPT ![p] = "done"]
               /\ loc' = [loc EXCEPT ![p].res = "TOKEN_EXPIRED"]
               /\ UNCHANGED refreshTokens
          ELSE /\ refreshTokens' = RevokeOne(refreshTokens, l.stored.id)
               /\ pc' = [pc EXCEPT ![p] = "user"]
               /\ UNCHANGED loc
    /\ UNCHANGED <<users, verificationTokens, passwordResetTokens, now, nUser, nRefresh,
                   nFamily, nOpaque, issued, mailed, last, scen, ext>>

\* prisma.user.findUnique({ where: { id: claims.sub } })
RefreshUser(p) ==
    /\ pc[p] = "user"
    /\ IF {u \in users : u.id = loc[p].tok.sub /\ u.deletedAt = NullTime} = {}
       THEN /\ pc' = [pc EXCEPT ![p] = "done"]
            /\ loc' = [loc EXCEPT ![p].res = "USER_NOT_FOUND"]
       ELSE /\ pc' = [pc EXCEPT ![p] = "create"]
            /\ UNCHANGED loc
    /\ UNCHANGED <<db, now, nUser, nRefresh, nFamily, nOpaque, issued, mailed, last, scen, ext>>

\* createTokenPair: prisma.refreshToken.create with the placeholder tokenHash ""
RefreshCreate(p) ==
    /\ pc[p] = "create"
    /\ nRefresh < MaxRefresh
    /\ refreshTokens' = refreshTokens \cup
          {[id |-> nRefresh + 1, tokenHash |-> <<>>, userId |-> loc[p].tok.sub,
            family |-> TokenFamily(loc[p].tok.family), revoked |-> FALSE,
            expiresAt |-> now + JWT_REFRESH_EXPIRY_SECONDS * TicksPerSecond]}
    /\ nRefresh' = nRefresh + 1
    /\ pc' = [pc EXCEPT ![p] = "sign"]
    /\ loc' = [loc EXCEPT ![p].recId = nRefresh + 1]
    /\ UNCHANGED <<users, verificationTokens, passwordResetTokens, now, nUser, nFamily,
                   nOpaque, issued, mailed, last, scen, ext>>

\* createTokenPair: signRefreshToken, then the update that stores its hash
RefreshSign(p) ==
    /\ pc[p] = "sign"
    /\ LET l == loc[p]
           jwt == signRefreshToken(l.tok.sub, l.recId, l.tok.family, now)
       IN /\ refreshTokens' = {IF r.id = l.recId
                               THEN [r EXCEPT !.tokenHash = hashToken(jwt)]
                               ELSE r : r \in refreshTokens}
          /\ issued' = issued \cup {jwt}
          /\ loc' = [loc EXCEPT ![p].res = "OK", ![p].out = jwt]
          /\ pc' = [pc EXCEPT ![p] = "done"]
    /\ UNCHANGED <<users, verificationTokens, passwordResetTokens, now, nUser, nRefresh,
                   nFamily, nOpaque, mailed, last, scen, ext>>

(* ---------------------------- verifyEmail -------------------------- *)

VerifyBranch(vt, rawToken, t) ==
    LET found == {r \in vt : r.tokenHash = hashToken(rawToken)}
    IN IF found = {} THEN "INVALID_TOKEN"
       ELSE IF (CHOOSE r \in found : TRUE).expiresAt < t THEN "TOKEN_EXPIRED"
       ELSE "VERIFY"

\* the transaction without its second statement: the token stays usable
VerifyTransaction_KeepToken(us, vt, stored) ==
    [users |-> {IF u.id = stored.userId THEN [u EXCEPT !.status = "ACTIVE"] ELSE u : u \in us},
     verificationTokens |-> vt]

\* prisma.$transaction([user.update, verificationToken.delete]) as one write
VerifyTransaction(us, vt, stored) ==
    [users |-> {IF u.id = stored.userId THEN [u EXCEPT !.status = "ACTIVE"] ELSE u : u \in us},
     verificationTokens |-> {r \in vt : r.id # stored.id}]

VerifyEmail(rawToken) ==
    LET branch == VerifyBranch(verificationTokens, rawToken, now)
        found == {r \in verificationTokens : r.tokenHash = hashToken(rawToken)}
    IN /\ UNCHANGED <<refreshTokens, passwordResetTokens, now, nUser, nRefresh, nFamily,
                      nOpaque, issued, mailed, scen, pc, loc, ext>>
       /\ CASE branch = "INVALID_TOKEN" ->
                 /\ last' = AuthError("verifyEmail", "INVALID_TOKEN",
                                      "Invalid or expired verification token", 400)
                 /\ UNCHANGED <<users, verificationTokens>>
            [] branch = "TOKEN_EXPIRED" ->
                 LET stored == CHOOSE r \in found : TRUE
                 IN /\ verificationTokens' = {r \in verificationTokens : r.id # stored.id}
                    /\ last' = AuthError("verifyEmail", "TOKEN_EXPIRED",
                                         "Verification token has expired", 400)
                    /\ UNCHANGED users
            [] OTHER ->
                 LET stored == CHOOSE r \in found : TRUE
                     tx == VerifyTransaction(users, verificationTokens, stored)
                 IN /\ users' = tx.users
                    /\ verificationTokens' = tx.verificationTokens
                    /\ last' = Ok("verifyEmail")

(* ---------------------------- resendVerification --------------------- *)

\* resendVerification issuing for every existing user, whatever its status
ResendEligible_AnyStatus(email) == UserByEmail(email)

\* the users row resendVerification issues a token for: !user || status !== UNVERIFIED
ResendEligible(email) == {u \in UserByEmail(email) : u.status = "UNVERIFIED"}

\* what resendVerification(email) returns: the raw token, 0 for null
ResendVerificationResult(email) ==
    IF ResendEligible(email) = {} THEN 0 ELSE generateOpaqueToken(nOpaque + 1).raw

\* the reads and writes of resendVerification(email)
ResendVerificationCall(email) ==
    LET m == ResendEligible(email)
    IN /\ UNCHANGED <<users, refreshTokens, passwordResetTokens, now, nUser, nRefresh,
                      nFamily, issued, scen, pc, loc, mailFrame>>
       /\ IF m = {}
          THEN /\ last' = [Ok("resendVerification") EXCEPT !.branch = "NO_USER"]
               /\ UNCHANGED <<verificationTokens, nOpaque, mailed>>
          ELSE /\ nOpaque < MaxOpaque
               /\ LET user == CHOOSE u \in m : TRUE
                      t == generateOpaqueToken(nOpaque + 1)
                  IN /\ verificationTokens' =
                            {r \in verificationTokens : r.userId # user.id} \cup
                            {[id |-> nOpaque + 1, tokenHash |-> t.hash, userId |-> user.id,
                              expiresAt |-> now + VerificationTokenTtl]}
                     /\ nOpaque' = nOpaque + 1
                     /\ mailed' = mailed \cup {[kind |-> "verification", raw |-> t.raw]}
                     /\ last' = [Ok("resendVerification") EXCEPT
                                    !.branch = "ISSUED", !.token = t.raw]

\* resendVerification(email) called on its own: the service never adds a job
ResendVerification(email) == ResendVerificationCall(email) /\ UNCHANGED jobs

\* the users row requestPasswordReset issues a token for: !user || user.deletedAt
ResetEligible(email) == {u \in UserByEmail(email) : u.deletedAt = NullTime}

\* what requestPasswordReset(email) returns: the raw token, 0 for null
RequestPasswordResetResult(email) ==
    IF ResetEligible(email) = {} THEN 0 ELSE generateOpaqueToken(nOpaque + 1).raw

(* ---------------------------- getUserProfile ------------------------- *)

\* getUserProfile finding rows whatever their deletedAt
ProfileRows_Any(us, userId) == {u \in us : u.id = userId}

\* prisma.user.findUnique({ where: { id: userId, deletedAt: null } })
ProfileRows(us, userId) == {u \in us : u.id = userId /\ u.deletedAt = NullTime}

GetUserProfile(userId) ==
    /\ last' = IF ProfileRows(users, userId) = {}
               THEN AuthError("getUserProfile", "USER_NOT_FOUND", "User not found", 404)
               ELSE Ok("getUserProfile")
    /\ UNCHANGED <<db, now, nUser, nRefresh, nFamily, nOpaque, issued, mailed, scen,
                   pc, loc, ext>>

(* ---------------------------- token flows, await by await ------------ *)

\* what a token-flow step leaves alone besides the four tables
flowFrame == <<now, nUser, nRefresh, nFamily, issued, last, scen, pc, loc,
               config, groupMembers, tasks, nTask, jobs, groups, nGroup, gpc, gloc,
               cookies, tpc, tloc>>

\* a delete that never fails, as deleteMany would behave
DeleteThrows_Never(table, id) == FALSE

\* prisma.<model>.delete({ where: { id } }) rejects when no row has the id
DeleteThrows(table, id) == {r \in table : r.id = id} = {}

\* verifyEmail: hashToken, then the findUnique read
VerifyFind(p, rawToken) ==
    /\ fpc[p] \in {"idle", "done"}
    /\ LET found == {r \in verificationTokens : r.tokenHash = hashToken(rawToken)}
           l == [NoFlow EXCEPT !.op = "verifyEmail", !.raw = rawToken]
       IN IF found = {}
          THEN /\ fpc' = [fpc EXCEPT ![p] = "done"]
               /\ floc' = [floc EXCEPT ![p] = [l EXCEPT !.res = "INVALID_TOKEN"]]
          ELSE /\ fpc' = [fpc EXCEPT ![p] = "verifyWrite"]
               /\ floc' = [floc EXCEPT ![p] =
                             [l EXCEPT !.stored = CHOOSE r \in found : TRUE]]
    /\ UNCHANGED <<db, nOpaque, mailed, used, flowFrame>>

\* verifyEmail: the expiry check and the write it leads to
VerifyWrite(p) ==
    /\ fpc[p] = "verifyWrite"
    /\ fpc' = [fpc EXCEPT ![p] = "done"]
    /\ LET stored == floc[p].stored
       IN IF DeleteThrows(verificationTokens, stored.id)
          THEN /\ floc' = [floc EXCEPT ![p].res = "STORE_ERROR"]
               /\ UNCHANGED <<users, verificationTokens, used>>
          ELSE IF stored.expiresAt < now
          THEN /\ verificationTokens' = {r \in verificationTokens : r.id # stored.id}
               /\ floc' = [floc EXCEPT ![p].res = "TOKEN_EXPIRED"]
               /\ UNCHANGED <<users, used>>
          ELSE LET tx == VerifyTransaction(users, verificationTokens, stored)
               IN /\ users' = tx.users
                  /\ verificationTokens' = tx.verificationTokens
                  /\ floc' = [floc EXCEPT ![p].res = "OK"]
                  /\ used' = used \cup {[kind |-> "verification", raw |-> floc[p].raw]}
    /\ UNCHANGED <<refreshTokens, passwordResetTokens, nOpaque, mailed, flowFrame>>

\* resetPassword: hashToken, then the findUnique read
ResetFind(p, rawToken) ==
    /\ fpc[p] \in {"idle", "done"}
    /\ LET found == {r \in passwordResetTokens : r.tokenHash = hashToken(rawToken)}
           l == [NoFlow EXCEPT !.op = "resetPassword", !.raw = rawToken]
       IN IF found = {}
          THEN /\ fpc' = [fpc EXCEPT ![p] = "done"]
               /\ floc' = [floc EXCEPT ![p] = [l EXCEPT !.res = "INVALID_TOKEN"]]
          ELSE /\ fpc' = [fpc EXCEPT ![p] = "resetWrite"]
               /\ floc' = [floc EXCEPT ![p] =
                             [l EXCEPT !.stored = CHOOSE r \in found : TRUE]]
    /\ UNCHANGED <<db, nOpaque, mailed, used, flowFrame>>

\* resetPassword: the expiry check and the write it leads to
ResetWrite(p, newPassword) ==
    /\ fpc[p] = "resetWrite"
    /\ fpc' = [fpc EXCEPT ![p] = "done"]
    /\ LET stored == floc[p].stored
       IN IF DeleteThrows(passwordResetTokens, stored.id)
          THEN /\ floc' = [floc EXCEPT ![p].res = "STORE_ERROR"]
               /\ UNCHANGED <<users, passwordResetTokens, refreshTokens, used>>
          ELSE IF stored.expiresAt < now
          THEN /\ passwordResetTokens' = {r \in passwordResetTokens : r.id # stored.id}
               /\ floc' = [floc EXCEPT ![p].res = "TOKEN_EXPIRED"]
               /\ UNCHANGED <<users, refreshTokens, used>>
          ELSE LET tx == ResetTransaction(users, passwordResetTokens, refreshTokens,
                                          stored, hashPassword(newPassword))
               IN /\ users' = tx.users
                  /\ passwordResetTokens' = tx.passwordResetTokens
                  /\ refreshTokens' = tx.refreshTokens
                  /\ floc' = [floc EXCEPT ![p].res = "OK"]
                  /\ used' = used \cup {[kind |-> "reset", raw |-> floc[p].raw]}
    /\ UNCHANGED <<verificationTokens, nOpaque, mailed, flowFrame>>

\* resendVerification: the user.findUnique read and the eligibility check
ResendFind(p, email) ==
    /\ fpc[p] \in {"idle", "done"}
    /\ LET m == ResendEligible(email)
           l == [NoFlow EXCEPT !.op = "resendVerification"]
       IN IF m = {}
          THEN /\ fpc' = [fpc EXCEPT ![p] = "done"]
               /\ floc' = [floc EXCEPT ![p] = [l EXCEPT !.res = "NULL"]]
          ELSE /\ fpc' = [fpc EXCEPT ![p] = "resendDelete"]
               /\ floc' = [floc EXCEPT ![p] =
                             [l EXCEPT !.userId = (CHOOSE u \in m : TRUE).id]]
    /\ UNCHANGED <<db, nOpaque, mailed, used, flowFrame>>

\* resendVerification: verificationToken.deleteMany({ where: { userId } })
ResendDelete(p) ==
    /\ fpc[p] = "resendDelete"
    /\ fpc' = [fpc EXCEPT ![p] = "resendCreate"]
    /\ verificationTokens' = {r \in verificationTokens : r.userId # floc[p].userId}
    /\ UNCHANGED <<users, refreshTokens, passwordResetTokens, nOpaque, mailed, floc,
                   used, flowFrame>>

\* resendVerification: generateOpaqueToken, verificationToken.create, return raw
ResendCreate(p) ==
    /\ fpc[p] = "resendCreate"
    /\ nOpaque < MaxOpaque
    /\ LET t == generateOpaqueToken(nOpaque + 1)
       IN /\ verificationTokens' = verificationTokens \cup
                {[id |-> nOpaque + 1, tokenHash |-> t.hash, userId |-> floc[p].userId,
                  expiresAt |-> now + VerificationTokenTtl]}
          /\ mailed' = mailed \cup {[kind |-> "verification", raw |-> t.raw]}
          /\ floc' = [floc EXCEPT ![p].res = "OK", ![p].raw = t.raw]
    /\ nOpaque' = nOpaque + 1
    /\ fpc' = [fpc EXCEPT ![p] = "done"]
    /\ UNCHANGED <<users, refreshTokens, passwordResetTokens, used, flowFrame>>

\* requestPasswordReset: the user.findUnique read and the eligibility check
RequestFind(p, email) ==
    /\ fpc[p] \in {"idle", "done"}
    /\ LET m == ResetEligible(email)
           l == [NoFlow EXCEPT !.op = "requestPasswordReset"]
       IN IF m = {}
          THEN /\ fpc' = [fpc EXCEPT ![p] = "done"]
               /\ floc' = [floc EXCEPT ![p] = [l EXCEPT !.res = "NULL"]]
          ELSE /\ fpc' = [fpc EXCEPT ![p] = "requestDelete"]
               /\ floc' = [floc EXCEPT ![p] =
                             [l EXCEPT !.userId = (CHOOSE u \in m : TRUE).id]]
    /\ UNCHANGED <<db, nOpaque, mailed, used, flowFrame>>

\* requestPasswordReset: passwordResetToken.deleteMany({ where: { userId } })
RequestDelete(p) ==
    /\ fpc[p] = "requestDelete"
    /\ fpc' = [fpc EXCEPT ![p] = "requestCreate"]
    /\ passwordResetTokens' = {r \in passwordResetTokens : r.userId # floc[p].userId}
    /\ UNCHANGED <<users, refreshTokens, verificationTokens, nOpaque, mailed, floc,
                   used, flowFrame>>

\* requestPasswordReset: generateOpaqueToken, passwordResetToken.create, return raw
RequestCreate(p) ==
    /\ fpc[p] = "requestCreate"
    /\ nOpaque < MaxOpaque
    /\ LET t == generateOpaqueToken(nOpaque + 1)
       IN /\ passwordResetTokens' = passwordResetTokens \cup
                {[id |-> nOpaque + 1, tokenHash |-> t.hash, userId |-> floc[p].userId,
                  expiresAt |-> now + ResetTokenTtl]}
          /\ mailed' = mailed \cup {[kind |-> "reset", raw |-> t.raw]}
          /\ floc' = [floc EXCEPT ![p].res = "OK", ![p].raw = t.raw]
    /\ nOpaque' = nOpaque + 1
    /\ fpc' = [fpc EXCEPT ![p] = "done"]
    /\ UNCHANGED <<users, refreshTokens, verificationTokens, used, flowFrame>>

\* the clock while token-flow handlers run
FlowTick ==
    /\ now < MaxTime
    /\ now' = now + 1
    /\ UNCHANGED <<db, nUser, nRefresh, nFamily, nOpaque, issued, mailed, last, scen,
                   pc, loc, ext>>

(* ---------------------------- routes/auth ---------------------------- *)

\* the values NODE_ENV and the two flags these routes read can start with
Configs ==
    {[DefaultConfig EXCEPT !.NODE_ENV = n, !.ENABLE_EMAIL = m, !.ENABLE_PASSWORD_RESET = r] :
        n \in {"development", "production", "test"}, m \in BOOLEAN, r \in BOOLEAN}

\* what POST /api/v1/auth/forgot-password sends for the token the service
\* returned (0 for null); token 0 stands for a body without the resetToken field
ForgotPasswordReply(cfg, token) ==
    IF ~cfg.ENABLE_PASSWORD_RESET
    THEN [status |-> 400, message |-> "Password reset is currently disabled", token |-> 0]
    ELSE [status |-> 200,
          message |-> "If an account exists, a password reset link has been sent.",
          token |-> IF cfg.NODE_ENV # "production" /\ token # 0 THEN token ELSE 0]

\* what POST /api/v1/auth/resend-verification sends; token 0 stands for a body
\* without the verificationToken field
ResendVerificationReply(cfg, token) ==
    [status |-> 200,
     message |-> "If an unverified account exists, a verification email has been sent.",
     token |-> IF cfg.NODE_ENV # "production" /\ token # 0 THEN token ELSE 0]

(* ---------------------------- task.service ---------------------------- *)

TaskStatuses == {"PENDING_ACCEPTANCE", "OPEN", "IN_PROGRESS", "COMPLETED", "CLOSED"}

\* the table with COMPLETED -> OPEN added: a completed task can be reopened
VALID_TRANSITIONS_Reopen ==
    [from \in TaskStatuses |->
        CASE from = "PENDING_ACCEPTANCE" -> {"OPEN", "CLOSED"}
          [] from = "OPEN" -> {"IN_PROGRESS", "CLOSED"}
          [] from = "IN_PROGRESS" -> {"COMPLETED", "OPEN", "CLOSED"}
          [] from = "COMPLETED" -> {"OPEN", "CLOSED"}
          [] OTHER -> {}]

VALID_TRANSITIONS ==
    [from \in TaskStatuses |->
        CASE from = "PENDING_ACCEPTANCE" -> {"OPEN", "CLOSED"}
          [] from = "OPEN" -> {"IN_PROGRESS", "CLOSED"}
          [] from = "IN_PROGRESS" -> {"COMPLETED", "OPEN", "CLOSED"}
          [] from = "COMPLETED" -> {"CLOSED"}
          [] OTHER -> {}]

\* the lookup left out: every pair is let through
isValidTransition_Unchecked(from, to) == TRUE

\* allowed !== undefined && allowed.includes(to)
isValidTransition(from, to) ==
    from \in DOMAIN VALID_TRANSITIONS /\ to \in VALID_TRANSITIONS[from]

\* new TaskError / GroupError(code, message, statusCode) as the route reports it
TaskError(op, code, message, statusCode) == AuthError(op, code, message, statusCode)

\* the membership lookup answering yes for everyone
IsGroupMember_Always(groupId, userId) == TRUE

\* the membership lookup with the group left out of the where clause
IsGroupMember_AnyGroup(groupId, userId) == \E m \in groupMembers : m.userId = userId

\* prisma.groupMember.findUnique({ where: { userId_groupId } }) finds a row
IsGroupMember(groupId, userId) ==
    \E m \in groupMembers : m.userId = userId /\ m.groupId = groupId

NotAMember(op) ==
    TaskError(op, "NOT_A_MEMBER", "You are not a member of this group", 403)

\* the lookup without the deletedAt filter
FindTask_IncludingDeleted(taskId) == {t \in tasks : t.id = taskId}

\* prisma.task.findUnique({ where: { id: taskId, deletedAt: null } })
FindTask(taskId) == {t \in tasks : t.id = taskId /\ t.deletedAt = NullTime}

\* getTaskById without the membership check on the task's group
GetTaskById_NoMembership(op, taskId, userId) ==
    IF FindTask(taskId) = {}
    THEN TaskError(op, "TASK_NOT_FOUND", "Task not found", 404)
    ELSE Ok(op)

\* getTaskById(taskId, userId): Ok(op) when the task is returned
GetTaskById(op, taskId, userId) ==
    IF FindTask(taskId) = {}
    THEN TaskError(op, "TASK_NOT_FOUND", "Task not found", 404)
    ELSE IF ~IsGroupMember((CHOOSE t \in FindTask(taskId) : TRUE).groupId, userId)
    THEN NotAMember(op)
    ELSE Ok(op)

\* what a task call leaves alone
taskFrame == <<db, now, nUser, nRefresh, nFamily, nOpaque, issued, mailed, scen, pc, loc,
               config, groupMembers, fpc, floc, used, groups, nGroup, gpc, gloc,
               cookies, tpc, tloc>>

(* ---------------------------- group.service --------------------------- *)

Roles == {"ADMIN", "MEMBER"}

\* new GroupError(code, message, statusCode) as the route reports it
GroupError(op, code, message, statusCode) == AuthError(op, code, message, statusCode)

\* the admin check without the role test: any member passes
IsGroupAdmin_AnyRole(groupId, userId) ==
    \E m \in groupMembers : m.userId = userId /\ m.groupId = groupId

\* assertGroupAdmin(groupId, userId) passes
IsGroupAdmin(groupId, userId) ==
    \E m \in groupMembers : m.userId = userId /\ m.groupId = groupId /\ m.role = "ADMIN"

NotAdmin(op) == GroupError(op, "NOT_ADMIN", "Admin access required for this group", 403)

\* prisma.groupMember.count({ where: { groupId, role: "ADMIN" } })
AdminCount(groupId) ==
    Cardinality({m \in groupMembers : m.groupId = groupId /\ m.role = "ADMIN"})

\* the last-admin guard letting the last admin go
IsLastAdmin_OffByOne(adminCount) == adminCount < 1

\* adminCount <= 1
IsLastAdmin(adminCount) == adminCount <= 1

\* what a group call leaves alone
groupFrame == <<db, now, nUser, nRefresh, nFamily, nOpaque, issued, mailed, scen, pc, loc,
                config, tasks, nTask, fpc, floc, used, jobs, cookies, tpc, tloc>>

\* createGroup({ name }, userId): the group and its creator's ADMIN row in one create
CreateGroup(name, userId) ==
    /\ UNCHANGED <<groupFrame, gpc, gloc>>
    /\ nGroup < MaxGroups
    /\ nGroup' = nGroup + 1
    /\ groups' = groups \cup {[id |-> nGroup + 1, name |-> name, createdById |-> userId]}
    /\ groupMembers' = groupMembers \cup
                          {[userId |-> userId, groupId |-> nGroup + 1, role |-> "ADMIN"]}
    /\ last' = [Ok("createGroup") EXCEPT !.status = 201]

\* addMember(groupId, { userId, role }, actingUserId)
AddMember(groupId, target, role, actingUserId) ==
    /\ UNCHANGED <<groupFrame, gpc, gloc, groups, nGroup>>
    /\ LET c == IF ~IsGroupAdmin(groupId, actingUserId) THEN NotAdmin("addMember")
                ELSE IF \A u \in UserById(target) : u.deletedAt # NullTime
                THEN GroupError("addMember", "USER_NOT_FOUND", "Target user not found", 404)
                ELSE IF IsGroupMember(groupId, target)
                THEN GroupError("addMember", "ALREADY_MEMBER",
                                "User is already a member of this group", 409)
                ELSE [Ok("addMember") EXCEPT !.status = 201]
       IN /\ last' = c
          /\ groupMembers' = IF c.res # "OK" THEN groupMembers
                             ELSE groupMembers \cup
                                     {[userId |-> target, groupId |-> groupId, role |-> role]}

\* removeMember(groupId, targetUserId, actingUserId), run to completion
RemoveMember(groupId, target, actingUserId) ==
    /\ UNCHANGED <<groupFrame, gpc, gloc, groups, nGroup>>
    /\ LET membership == {m \in groupMembers : m.userId = target /\ m.groupId = groupId}
           c == IF ~IsGroupAdmin(groupId, actingUserId) THEN NotAdmin("removeMember")
                ELSE IF membership = {}
                THEN GroupError("removeMember", "NOT_A_MEMBER",
                                "User is not a member of this group", 404)
                ELSE IF /\ \E m \in membership : m.role = "ADMIN"
                        /\ IsLastAdmin(AdminCount(groupId))
                THEN GroupError("removeMember", "LAST_ADMIN",
                                "Cannot remove the last admin from the group", 400)
                ELSE [Ok("removeMember") EXCEPT !.status = 204]
       IN /\ last' = c
          /\ groupMembers' = IF c.res # "OK" THEN groupMembers
                             ELSE groupMembers \ membership

\* the names updateGroup sets
NewNames == {"n2"}

\* updateGroup(groupId, { name }, userId)
UpdateGroup(groupId, name, userId) ==
    /\ UNCHANGED <<groupFrame, gpc, gloc, nGroup, groupMembers>>
    /\ IF ~IsGroupAdmin(groupId, userId)
       THEN last' = NotAdmin("updateGroup") /\ UNCHANGED groups
       ELSE /\ groups' = {IF g.id = groupId THEN [g EXCEPT !.name = name] ELSE g :
                             g \in groups}
            /\ last' = Ok("updateGroup")

\* removeMember step by step, one store call per step
removeFrame == <<groupFrame, groups, nGroup, last>>

\* await assertGroupAdmin(groupId, actingUserId)
RemoveAssert(p, groupId, target, actingUserId) ==
    /\ gpc[p] \in {"idle", "done"}
    /\ UNCHANGED <<removeFrame, groupMembers>>
    /\ LET l == [NoRemoval EXCEPT !.groupId = groupId, !.target = target,
                                  !.actor = actingUserId]
       IN IF IsGroupAdmin(groupId, actingUserId)
          THEN gpc' = [gpc EXCEPT ![p] = "find"] /\ gloc' = [gloc EXCEPT ![p] = l]
          ELSE /\ gpc' = [gpc EXCEPT ![p] = "done"]
               /\ gloc' = [gloc EXCEPT ![p] = [l EXCEPT !.res = "NOT_ADMIN"]]

\* await prisma.groupMember.findUnique({ where: { userId_groupId } })
RemoveFind(p) ==
    /\ gpc[p] = "find"
    /\ UNCHANGED <<removeFrame, groupMembers>>
    /\ LET membership == {m \in groupMembers :
                             m.userId = gloc[p].target /\ m.groupId = gloc[p].groupId}
       IN IF membership = {}
          THEN /\ gpc' = [gpc EXCEPT ![p] = "done"]
               /\ gloc' = [gloc EXCEPT ![p].res = "NOT_A_MEMBER"]
          ELSE /\ gloc' = [gloc EXCEPT ![p].role = (CHOOSE m \in membership : TRUE).role]
               /\ gpc' = [gpc EXCEPT ![p] =
                            IF \E m \in membership : m.role = "ADMIN"
                            THEN "count" ELSE "delete"]

\* await prisma.groupMember.count(...), then the adminCount <= 1 test
RemoveCount(p) ==
    /\ gpc[p] = "count"
    /\ UNCHANGED <<removeFrame, groupMembers>>
    /\ gloc' = [gloc EXCEPT ![p].adminCount = AdminCount(gloc[p].groupId),
                            ![p].res = IF IsLastAdmin(AdminCount(gloc[p].groupId))
                                       THEN "LAST_ADMIN" ELSE "NONE"]
    /\ gpc' = [gpc EXCEPT ![p] = IF IsLastAdmin(AdminCount(gloc[p].groupId))
                                 THEN "done" ELSE "delete"]

\* await prisma.groupMember.delete({ where: { userId_groupId } }): rejects when
\* the row is gone
RemoveDelete(p) ==
    /\ gpc[p] = "delete"
    /\ UNCHANGED removeFrame
    /\ LET membership == {m \in groupMembers :
                             m.userId = gloc[p].target /\ m.groupId = gloc[p].groupId}
       IN /\ groupMembers' = groupMembers \ membership
          /\ gloc' = [gloc EXCEPT ![p].res = IF membership = {} THEN "STORE_ERROR" ELSE "OK"]
          /\ gpc' = [gpc EXCEPT ![p] = "done"]

(* ---------------------------- queue/producer ------------------------- *)

\* how an enqueue ends: the job is added, queue.add rejects (Redis down, queue
\* not initialised), or the user lookup before it rejects
EnqueueOutcomes == {"queued", "queue_failed", "lookup_failed"}

\* enqueueEmail(data): queue.add under jobId type:to:minute; an add whose jobId
\* the queue already holds is ignored; a rejected add is logged only
enqueueEmail(js, type, to, payload, outcome) ==
    LET id == <<type, to, now \div (60 * TicksPerSecond)>>
    IN IF outcome # "queued" \/ \E j \in js : j.jobId = id
       THEN js
       ELSE js \cup {[jobId |-> id, payload |-> payload]}

(* ---------------------------- auth routes that mail ---------------- *)

\* how queue.add of the "email" queue ends for an auth route
MailOutcomes == {"queued", "queue_failed"}

\* the route's step after the service returned token (0 for null):
\* if (token && isFeatureEnabled("ENABLE_EMAIL")) void enqueueEmail({ type, payload })
MailToken(js, type, email, token, outcome) ==
    IF token # 0 /\ config.ENABLE_EMAIL
    THEN enqueueEmail(js, type, email, token, outcome)
    ELSE js

\* POST /api/v1/auth/forgot-password, the queue answering with outcome
ForgotPasswordRoute(email, outcome) ==
    IF ~config.ENABLE_PASSWORD_RESET
    THEN /\ last' = AuthError("forgotPassword", "Feature Disabled",
                              "Password reset is currently disabled", 400)
         /\ UNCHANGED <<db, now, nUser, nRefresh, nFamily, nOpaque, issued, mailed, scen,
                        pc, loc, ext>>
    ELSE /\ RequestPasswordResetCall(email)
         /\ jobs' = MailToken(jobs, "password-reset", email,
                              RequestPasswordResetResult(email), outcome)

\* POST /api/v1/auth/forgot-password
ForgotPassword(email) == \E o \in MailOutcomes : ForgotPasswordRoute(email, o)

\* POST /api/v1/auth/resend-verification, the queue answering with outcome
ResendVerificationMail(email, outcome) ==
    /\ ResendVerificationCall(email)
    /\ jobs' = MailToken(jobs, "verification", email,
                         ResendVerificationResult(email), outcome)

\* POST /api/v1/auth/resend-verification
ResendVerificationRoute(email) == \E o \in MailOutcomes : ResendVerificationMail(email, o)

\* enqueueAssignmentEmail(assignerUserId, assigneeUserId, taskTitle, taskId)
enqueueAssignmentEmail(js, assigner, assignee, title, taskId, outcome) ==
    IF outcome = "lookup_failed" THEN js
    ELSE IF UserById(assigner) = {} \/ UserById(assignee) = {} THEN js
    ELSE enqueueEmail(js, "task-assignment",
                      (CHOOSE u \in UserById(assignee) : TRUE).email,
                      <<title, taskId>>, outcome)

\* an enqueue failure reaches the caller and fails the call
EnqueueRejection_Propagates(outcome) ==
    IF outcome = "queued" THEN "NONE" ELSE "INTERNAL_ERROR"

\* what the caller of `void enqueueAssignmentEmail(...)` gets back from it:
\* both try/catch blocks log the failure, nothing is rethrown
EnqueueRejection(outcome) == "NONE"

\* createTask(input, userId); assigneeId 0 stands for an absent assignee
CreateTask(title, groupId, assigneeId, userId) ==
    /\ UNCHANGED taskFrame
    /\ LET c == IF ~IsGroupMember(groupId, userId) THEN NotAMember("createTask")
                ELSE IF assigneeId # 0 /\ ~config.ENABLE_ASSIGNMENTS
                THEN TaskError("createTask", "FEATURE_DISABLED",
                               "Task assignments are currently disabled", 400)
                ELSE IF assigneeId # 0 /\ ~IsGroupMember(groupId, assigneeId)
                THEN NotAMember("createTask")
                ELSE [Ok("createTask") EXCEPT !.status = 201]
           task == [id |-> nTask + 1, title |-> title,
                    status |-> IF assigneeId # 0 THEN "PENDING_ACCEPTANCE" ELSE "OPEN",
                    groupId |-> groupId, createdById |-> userId,
                    assigneeId |-> assigneeId, acceptedAt |-> NullTime,
                    deletedAt |-> NullTime]
       IN IF c.res # "OK"
          THEN last' = c /\ UNCHANGED <<tasks, nTask, jobs>>
          ELSE /\ nTask < MaxTasks
               /\ nTask' = nTask + 1
               /\ tasks' = tasks \cup {task}
               /\ IF assigneeId # 0 /\ config.ENABLE_EMAIL
                  THEN \E e \in EnqueueOutcomes :
                         /\ jobs' = enqueueAssignmentEmail(jobs, userId, assigneeId,
                                                           title, task.id, e)
                         /\ last' = IF EnqueueRejection(e) # "NONE"
                                    THEN TaskError("createTask", EnqueueRejection(e),
                                                   "Internal Server Error", 500)
                                    ELSE [c EXCEPT !.rows = {task}, !.branch = e]
                  ELSE /\ UNCHANGED jobs
                       /\ last' = [c EXCEPT !.rows = {task}]

\* updateTask(taskId, { title }, userId)
UpdateTask(taskId, title, userId) ==
    /\ UNCHANGED <<taskFrame, nTask, jobs>>
    /\ LET g == GetTaskById("updateTask", taskId, userId)
           SetTitle(t) == [t EXCEPT !.title = title]
       IN IF g.res # "OK" THEN last' = g /\ UNCHANGED tasks
          ELSE IF (CHOOSE t \in FindTask(taskId) : TRUE).createdById # userId
          THEN /\ last' = TaskError("updateTask", "FORBIDDEN",
                                    "Only the task creator can update this task", 403)
               /\ UNCHANGED tasks
          ELSE /\ tasks' = {IF t.id = taskId THEN SetTitle(t) ELSE t : t \in tasks}
               /\ last' = [g EXCEPT !.rows = {SetTitle(t) : t \in FindTask(taskId)}]

\* updateTaskStatus(taskId, newStatus, userId)
UpdateTaskStatus(taskId, newStatus, userId) ==
    /\ UNCHANGED <<taskFrame, nTask, jobs>>
    /\ LET g == GetTaskById("updateTaskStatus", taskId, userId)
           SetStatus(t) == [t EXCEPT !.status = newStatus]
       IN IF g.res # "OK" THEN last' = g /\ UNCHANGED tasks
          ELSE IF ~isValidTransition((CHOOSE t \in FindTask(taskId) : TRUE).status, newStatus)
          THEN /\ last' = TaskError("updateTaskStatus", "INVALID_TRANSITION",
                                    "Cannot transition", 400)
               /\ UNCHANGED tasks
          ELSE /\ tasks' = {IF t.id = taskId THEN SetStatus(t) ELSE t : t \in tasks}
               /\ last' = [g EXCEPT !.rows = {SetStatus(t) : t \in FindTask(taskId)}]

\* acceptTask(taskId, userId)
AcceptTask(taskId, userId) ==
    /\ UNCHANGED <<taskFrame, nTask, jobs>>
    /\ LET g == GetTaskById("acceptTask", taskId, userId)
           Accept(t) == [t EXCEPT !.status = "OPEN", !.acceptedAt = now]
       IN IF g.res # "OK" THEN last' = g /\ UNCHANGED tasks
          ELSE IF (CHOOSE t \in FindTask(taskId) : TRUE).assigneeId # userId
          THEN /\ last' = TaskError("acceptTask", "FORBIDDEN",
                                    "Only the assigned user can accept this task", 403)
               /\ UNCHANGED tasks
          ELSE IF (CHOOSE t \in FindTask(taskId) : TRUE).status # "PENDING_ACCEPTANCE"
          THEN /\ last' = TaskError("acceptTask", "INVALID_STATE",
                                    "Task is not pending acceptance", 400)
               /\ UNCHANGED tasks
          ELSE /\ tasks' = {IF t.id = taskId THEN Accept(t) ELSE t : t \in tasks}
               /\ last' = [g EXCEPT !.rows = {Accept(t) : t \in FindTask(taskId)}]

\* assignTask(taskId, assigneeId, userId)
AssignTask(taskId, assigneeId, userId) ==
    /\ UNCHANGED <<taskFrame, nTask>>
    /\ LET g == GetTaskById("assignTask", taskId, userId)
           Assign(t) == [t EXCEPT !.assigneeId = assigneeId,
                                  !.status = "PENDING_ACCEPTANCE",
                                  !.acceptedAt = NullTime]
       IN IF ~config.ENABLE_ASSIGNMENTS
          THEN /\ last' = TaskError("assignTask", "FEATURE_DISABLED",
                                    "Task assignments are currently disabled", 400)
               /\ UNCHANGED <<tasks, jobs>>
          ELSE IF g.res # "OK" THEN last' = g /\ UNCHANGED <<tasks, jobs>>
          ELSE IF (CHOOSE t \in FindTask(taskId) : TRUE).createdById # userId
          THEN /\ last' = TaskError("assignTask", "FORBIDDEN",
                                    "Only the task creator can assign this task", 403)
               /\ UNCHANGED <<tasks, jobs>>
          ELSE IF ~IsGroupMember((CHOOSE t \in FindTask(taskId) : TRUE).groupId, assigneeId)
          THEN last' = NotAMember("assignTask") /\ UNCHANGED <<tasks, jobs>>
          ELSE /\ tasks' = {IF t.id = taskId THEN Assign(t) ELSE t : t \in tasks}
               /\ IF config.ENABLE_EMAIL
                  THEN \E e \in EnqueueOutcomes :
                         /\ jobs' = enqueueAssignmentEmail(
                                       jobs, userId, assigneeId,
                                       (CHOOSE t \in FindTask(taskId) : TRUE).title, taskId, e)
                         /\ last' = IF EnqueueRejection(e) # "NONE"
                                    THEN TaskError("assignTask", EnqueueRejection(e),
                                                   "Internal Server Error", 500)
                                    ELSE [g EXCEPT !.rows = {Assign(t) : t \in FindTask(taskId)},
                                                   !.branch = e]
                  ELSE /\ UNCHANGED jobs
                       /\ last' = [g EXCEPT !.rows = {Assign(t) : t \in FindTask(taskId)}]

\* deleteTask without the creator check: any member of the group deletes
DeleteTask_AnyMember(taskId, userId) ==
    /\ UNCHANGED <<taskFrame, nTask, jobs>>
    /\ LET g == GetTaskById("deleteTask", taskId, userId)
           Delete(t) == [t EXCEPT !.deletedAt = DeletedTime]
       IN IF g.res # "OK" THEN last' = g /\ UNCHANGED tasks
          ELSE /\ tasks' = {IF t.id = taskId THEN Delete(t) ELSE t : t \in tasks}
               /\ last' = g

\* deleteTask(taskId, userId): the soft delete
DeleteTask(taskId, userId) ==
    /\ UNCHANGED <<taskFrame, nTask, jobs>>
    /\ LET g == GetTaskById("deleteTask", taskId, userId)
           Delete(t) == [t EXCEPT !.deletedAt = DeletedTime]
       IN IF g.res # "OK" THEN last' = g /\ UNCHANGED tasks
          ELSE IF (CHOOSE t \in FindTask(taskId) : TRUE).createdById # userId
          THEN /\ last' = TaskError("deleteTask", "FORBIDDEN",
                                    "Only the task creator can delete this task", 403)
               /\ UNCHANGED tasks
          ELSE /\ tasks' = {IF t.id = taskId THEN Delete(t) ELSE t : t \in tasks}
               /\ last' = g

TaskIds == 1..MaxTasks

\* getTaskById(taskId, userId) called by the route GET /api/v1/tasks/:id
GetTask(taskId, userId) ==
    /\ UNCHANGED <<taskFrame, tasks, nTask, jobs>>
    /\ LET g == GetTaskById("getTaskById", taskId, userId)
       IN last' = IF g.res # "OK" THEN g ELSE [g EXCEPT !.rows = FindTask(taskId)]

Pages == {1, 2}
Limits == {2}

\* listTasksByGroup(groupId, userId, { page, limit }): the page of the group's
\* non-deleted tasks, newest first, and their count
ListTasksByGroup(groupId, userId, page, limit) ==
    /\ UNCHANGED <<taskFrame, tasks, nTask, jobs>>
    /\ LET found == {t \in tasks : t.groupId = groupId /\ t.deletedAt = NullTime}
           skip == (page - 1) * limit
           Newer(t) == Cardinality({v \in found : v.id > t.id})
       IN last' = IF ~IsGroupMember(groupId, userId) THEN NotAMember("listTasksByGroup")
                  ELSE [Ok("listTasksByGroup") EXCEPT
                          !.rows = {t \in found : Newer(t) >= skip /\ Newer(t) < skip + limit},
                          !.total = Cardinality(found)]

(* ---------------------------- web client: attemptRefresh -------------- *)

\* attemptRefresh(): the browser sends POST /api/v1/auth/refresh with the
\* refresh_token cookie its jar holds; the route reads the cookie and calls
\* refreshTokens, whose first steps are verifyRefreshToken and the findFirst
ClientRefresh(p) ==
    /\ pc[p] = "idle"
    /\ cookies.refresh_token # NoToken
    /\ RefreshFind(p, cookies.refresh_token)

\* the cookies the browser holds after the reply of the refresh route:
\* setAuthCookies with the new pair, or clearAuthCookies on an AuthError
RefreshReplyCookies(l) ==
    IF l.res = "OK"
    THEN [access_token |-> [token |-> AccessFor(users, l.tok.sub),
                            exp |-> ClockSeconds(now) + JWT_ACCESS_EXPIRY_SECONDS],
          refresh_token |-> l.out]
    ELSE NoCookies

\* the reply of POST /api/v1/auth/refresh reaches the browser
RefreshReply(p) ==
    /\ pc[p] = "done"
    /\ cookies' = RefreshReplyCookies(loc[p])
    /\ pc' = [pc EXCEPT ![p] = "idle"]
    /\ loc' = [loc EXCEPT ![p] = NoLoc]
    /\ last' = [NoCall EXCEPT !.op = "refresh", !.res = loc[p].res,
                              !.status = IF loc[p].res = "OK" THEN 200 ELSE 401]
    /\ UNCHANGED <<db, now, nUser, nRefresh, nFamily, nOpaque, issued, mailed, scen,
                   config, groupMembers, tasks, nTask, fpc, floc, used, jobs,
                   groups, nGroup, gpc, gloc, tpc, tloc>>

(* ---------------------------- task.service, await by await ----------- *)

\* what a step of a task-service handler leaves alone
taskStepFrame == <<db, now, nUser, nRefresh, nFamily, nOpaque, issued, mailed, scen, pc, loc,
                   config, groupMembers, fpc, floc, used, groups, nGroup, gpc, gloc,
                   cookies, nTask, last>>

\* the row getTaskById returned to the handler
TaskRead(taskId) == IF FindTask(taskId) = {} THEN NoTask ELSE CHOOSE t \in FindTask(taskId) : TRUE

\* updateTaskStatus up to its update: await getTaskById, then isValidTransition
\* on the status that was read
StatusRead(p, taskId, newStatus, userId) ==
    /\ tpc[p] \in {"idle", "done"}
    /\ UNCHANGED <<taskStepFrame, tasks, jobs>>
    /\ LET g == GetTaskById("updateTaskStatus", taskId, userId)
           task == TaskRead(taskId)
           res == IF g.res # "OK" THEN g.res
                  ELSE IF ~isValidTransition(task.status, newStatus)
                  THEN "INVALID_TRANSITION" ELSE "NONE"
       IN /\ tloc' = [tloc EXCEPT ![p] = [op |-> "updateTaskStatus", taskId |-> taskId,
                                          userId |-> userId, arg |-> newStatus,
                                          task |-> task, res |-> res]]
          /\ tpc' = [tpc EXCEPT ![p] = IF res = "NONE" THEN "status" ELSE "done"]

\* await prisma.task.update({ where: { id }, data: { status: newStatus } })
StatusWrite(p) ==
    /\ tpc[p] = "status"
    /\ UNCHANGED <<taskStepFrame, jobs>>
    /\ tasks' = {IF t.id = tloc[p].taskId THEN [t EXCEPT !.status = tloc[p].arg] ELSE t :
                    t \in tasks}
    /\ tloc' = [tloc EXCEPT ![p].res = "OK"]
    /\ tpc' = [tpc EXCEPT ![p] = "done"]

\* acceptTask up to its update: await getTaskById, then the assignee and
\* status tests on the row that was read
AcceptRead(p, taskId, userId) ==
    /\ tpc[p] \in {"idle", "done"}
    /\ UNCHANGED <<taskStepFrame, tasks, jobs>>
    /\ LET g == GetTaskById("acceptTask", taskId, userId)
           task == TaskRead(taskId)
           res == IF g.res # "OK" THEN g.res
                  ELSE IF task.assigneeId # userId THEN "FORBIDDEN"
                  ELSE IF task.status # "PENDING_ACCEPTANCE" THEN "INVALID_STATE"
                  ELSE "NONE"
       IN /\ tloc' = [tloc EXCEPT ![p] = [op |-> "acceptTask", taskId |-> taskId,
                                          userId |-> userId, arg |-> 0,
                                          task |-> task, res |-> res]]
          /\ tpc' = [tpc EXCEPT ![p] = IF res = "NONE" THEN "accept" ELSE "done"]

\* await prisma.task.update({ where: { id },
\*                            data: { status: "OPEN", acceptedAt: new Date() } })
AcceptWrite(p) ==
    /\ tpc[p] = "accept"
    /\ UNCHANGED <<taskStepFrame, jobs>>
    /\ tasks' = {IF t.id = tloc[p].taskId
                 THEN [t EXCEPT !.status = "OPEN", !.acceptedAt = now] ELSE t : t \in tasks}
    /\ tloc' = [tloc EXCEPT ![p].res = "OK"]
    /\ tpc' = [tpc EXCEPT ![p] = "done"]

\* assignTask up to its update: the feature flag, await getTaskById, the
\* creator test, await assertGroupMember(task.groupId, assigneeId)
AssignRead(p, taskId, assigneeId, userId) ==
    /\ tpc[p] \in {"idle", "done"}
    /\ UNCHANGED <<taskStepFrame, tasks, jobs>>
    /\ LET g == GetTaskById("assignTask", taskId, userId)
           task == TaskRead(taskId)
           res == IF ~config.ENABLE_ASSIGNMENTS THEN "FEATURE_DISABLED"
                  ELSE IF g.res # "OK" THEN g.res
                  ELSE IF task.createdById # userId THEN "FORBIDDEN"
                  ELSE IF ~IsGroupMember(task.groupId, assigneeId) THEN "NOT_A_MEMBER"
                  ELSE "NONE"
       IN /\ tloc' = [tloc EXCEPT ![p] = [op |-> "assignTask", taskId |-> taskId,
                                          userId |-> userId, arg |-> assigneeId,
                                          task |-> IF config.ENABLE_ASSIGNMENTS
                                                   THEN task ELSE NoTask,
                                          res |-> res]]
          /\ tpc' = [tpc EXCEPT ![p] = IF res = "NONE" THEN "assign" ELSE "done"]

\* await prisma.task.update({ where: { id }, data: { assigneeId,
\*    status: "PENDING_ACCEPTANCE", acceptedAt: null } }), then the enqueue
AssignWrite(p) ==
    /\ tpc[p] = "assign"
    /\ UNCHANGED taskStepFrame
    /\ tasks' = {IF t.id = tloc[p].taskId
                 THEN [t EXCEPT !.assigneeId = tloc[p].arg,
                                !.status = "PENDING_ACCEPTANCE",
                                !.acceptedAt = NullTime]
                 ELSE t : t \in tasks}
    /\ IF config.ENABLE_EMAIL
       THEN \E e \in EnqueueOutcomes :
               jobs' = enqueueAssignmentEmail(jobs, tloc[p].userId, tloc[p].arg,
                                              tloc[p].task.title, tloc[p].taskId, e)
       ELSE UNCHANGED jobs
    /\ tloc' = [tloc EXCEPT ![p].res = "OK"]
    /\ tpc' = [tpc EXCEPT ![p] = "done"]

(* ---------------------------- middleware/auth, routes ---------------- *)

\* the refresh JWT of the token pair the last login or refresh returned
ReturnedRefresh == CHOOSE t \in issued : t.tokenId = nRefresh

\* the browser applies the Set-Cookie headers of the response it received:
\* setAuthCookies after a login or refresh (jwt.sign stamps exp on the access
\* token), clearAuthCookies after a failed refresh, a logout and a password reset
ApplyCookies ==
    /\ last.op \in {"login", "refresh", "logout", "resetPassword"}
    /\ last.op \in {"login", "resetPassword"} => last.res = "OK"
    /\ cookies' = IF last.res = "OK" /\ last.op \in {"login", "refresh"}
                  THEN [access_token |->
                           [token |-> last.access,
                            exp |-> ClockSeconds(now) + JWT_ACCESS_EXPIRY_SECONDS],
                        refresh_token |-> ReturnedRefresh]
                  ELSE NoCookies
    /\ last' = [NoCall EXCEPT !.op = "browser"]
    /\ UNCHANGED <<db, now, nUser, nRefresh, nFamily, nOpaque, issued, mailed, scen,
                   pc, loc, config, groupMembers, tasks, nTask, fpc, floc, used, jobs,
                   groups, nGroup, gpc, gloc, tpc, tloc>>

\* jwt.verify of the access_token cookie: signed by the server, exp ahead
verifyAccessToken(cookie, t) ==
    cookie.token # NoAccess /\ ClockSeconds(t) < cookie.exp

\* the guard consulting the users row instead of the token's status claim
RouteGuard_ReadsUser(op, cookie, t) ==
    IF ~verifyAccessToken(cookie, t)
    THEN AuthError(op, "Unauthorized", "Access token is invalid or expired", 401)
    ELSE IF \A u \in UserById(cookie.token.sub) : u.status # "ACTIVE"
    THEN AuthError(op, "Forbidden",
                   "Email verification required before accessing this resource", 403)
    ELSE Ok(op)

\* the preHandlers requireAuth and requireVerified: the reply one of them
\* sends, or Ok(op) when the request reaches the route handler
RouteGuard(op, cookie, t) ==
    IF cookie.token = NoAccess
    THEN AuthError(op, "Unauthorized", "Authentication required", 401)
    ELSE IF ~verifyAccessToken(cookie, t)
    THEN AuthError(op, "Unauthorized", "Access token is invalid or expired", 401)
    ELSE IF cookie.token.status # "ACTIVE"
    THEN AuthError(op, "Forbidden",
                   "Email verification required before accessing this resource", 403)
    ELSE Ok(op)

\* the Path attribute setAuthCookies gives each cookie, segment by segment
CookiePath == [access_token |-> <<>>,
               refresh_token |-> <<"api", "v1", "auth", "refresh">>]

\* the browser's path-match: the cookie path is a prefix of the request path
PathMatch(cookiePath, requestPath) ==
    /\ Len(cookiePath) <= Len(requestPath)
    /\ \A i \in 1..Len(cookiePath) : cookiePath[i] = requestPath[i]

\* the cookies the browser attaches to a request for requestPath
SentCookies(requestPath) ==
    [access_token |-> IF PathMatch(CookiePath.access_token, requestPath)
                      THEN cookies.access_token ELSE NoCookies.access_token,
     refresh_token |-> IF PathMatch(CookiePath.refresh_token, requestPath)
                       THEN cookies.refresh_token ELSE NoCookies.refresh_token]

\* the preHandler requireAuth alone
RequireAuth(op, cookie, t) ==
    IF cookie.token = NoAccess
    THEN AuthError(op, "Unauthorized", "Authentication required", 401)
    ELSE IF ~verifyAccessToken(cookie, t)
    THEN AuthError(op, "Unauthorized", "Access token is invalid or expired", 401)
    ELSE Ok(op)

\* POST /api/v1/auth/logout with the cookies the browser sends to that path
LogoutRoute ==
    LET sent == SentCookies(<<"api", "v1", "auth", "logout">>)
        g == RequireAuth("logout", sent.access_token, now)
    IN IF g.res # "OK"
       THEN /\ last' = g
            /\ UNCHANGED <<db, now, nUser, nRefresh, nFamily, nOpaque, issued, mailed,
                           scen, pc, loc, ext>>
       ELSE LogoutUser(sent.refresh_token, sent.access_token.token.sub)

\* POST /api/v1/groups with the browser's cookies
CreateGroupRoute(name) ==
    LET g == RouteGuard("createGroup", cookies.access_token, now)
    IN IF g.res # "OK"
       THEN /\ last' = g
            /\ UNCHANGED <<groupFrame, gpc, gloc, groups, nGroup, groupMembers>>
       ELSE CreateGroup(name, cookies.access_token.token.sub)

\* GET /api/v1/tasks/:id with the browser's cookies
GetTaskRoute(taskId) ==
    LET g == RouteGuard("getTaskById", cookies.access_token, now)
    IN IF g.res # "OK"
       THEN /\ last' = g
            /\ UNCHANGED <<taskFrame, tasks, nTask, jobs>>
       ELSE GetTask(taskId, cookies.access_token.token.sub)

\* the emails the timed specification registers
TimedEmails == {"a@x.io"}

\* the store answers at once or MaxLatency ticks later
Latencies == {0, MaxLatency}

(* ---------------------------- specifications ------------------------- *)

\* Sessions: the API calls, each run to completion, and account deletion
Next ==
    \/ \E e \in Emails, p \in RegisterPasswords : RegisterUser(e, p)
    \/ \E e \in Emails, p \in Passwords : LoginUser(e, p)
    \/ \E t \in PresentableTokens : RefreshTokens(t, 0)
    \/ \E t \in issued \cup {NoToken}, u \in UserIds : LogoutUser(t, u)
    \/ \E e \in Emails : RequestPasswordReset(e)
    \/ \E m \in mailed, p \in ResetPasswords : ResetPassword(m.raw, p)
    \/ \E u \in UserIds : HardDeleteUser(u)

Spec == Init /\ [][Next]_vars

\* Accounts: registration and login against every kind of users row
NextAccounts ==
    \/ \E e \in Emails, p \in RegisterPasswords : RegisterUser(e, p)
    \/ \E e \in Emails, p \in Passwords : LoginUser(e, p)
    \/ \E u \in UserIds : SuspendUser(u)
    \/ \E u \in UserIds : SoftDeleteUser(u)
    \/ \E u \in UserIds : HardDeleteUser(u)
    \/ \E e \in Emails : CreateOAuthUser(e)

SpecAccounts == Init /\ [][NextAccounts]_vars

\* Sessions of one account with the clock running and the store answering late.
\* The account was registered at time 0 (the state RegisterUser leaves behind).
InitT ==
    /\ users = {[id |-> 1, email |-> "a@x.io", passwordHash |-> hashPassword("pw1"),
                 status |-> "UNVERIFIED", deletedAt |-> NullTime]}
    /\ refreshTokens = {}
    /\ verificationTokens = {[id |-> 1, tokenHash |-> hashToken(1), userId |-> 1,
                              expiresAt |-> VerificationTokenTtl]}
    /\ passwordResetTokens = {}
    /\ now = 0
    /\ nUser = 1 /\ nRefresh = 0 /\ nFamily = 0 /\ nOpaque = 1
    /\ issued = {}
    /\ mailed = {[kind |-> "verification", raw |-> 1]}
    /\ last = [Ok("register") EXCEPT !.status = 201]
    /\ scen = NoScen
    /\ pc = [p \in Procs |-> "idle"]
    /\ loc = [p \in Procs |-> NoLoc]
    /\ config = DefaultConfig
    /\ groupMembers = {}
    /\ tasks = {}
    /\ nTask = 0
    /\ fpc = [p \in Procs |-> "idle"]
    /\ floc = [p \in Procs |-> NoFlow]
    /\ used = {}
    /\ jobs = {}
    /\ groups = {}
    /\ nGroup = 0
    /\ gpc = [p \in Procs |-> "idle"]
    /\ gloc = [p \in Procs |-> NoRemoval]
    /\ cookies = NoCookies
    /\ tpc = [p \in Procs |-> "idle"]
    /\ tloc = [p \in Procs |-> NoTaskLoc]

NextT ==
    \/ \E e \in TimedEmails, p \in Passwords : LoginUser(e, p)
    \/ \E t \in issued, d \in Latencies : RefreshTokens(t, d)
    \/ \E t \in issued \cup {NoToken} : LogoutUser(t, 1)
    \/ \E e \in TimedEmails : RequestPasswordReset(e)
    \/ \E m \in mailed, p \in ResetPasswords : ResetPassword(m.raw, p)
    \/ SoftDeleteUser(1)
    \/ Tick

SpecT == InitT /\ [][NextT]_vars

\* Two request handlers running refreshTokens with their store accesses interleaved
NextC ==
    \/ \E e \in TimedEmails, p \in RegisterPasswords : RegisterUser(e, p)
    \/ \E e \in TimedEmails, p \in RegisterPasswords : LoginUser(e, p)
    \/ \E p \in Procs, t \in issued : RefreshFind(p, t)
    \/ \E p \in Procs : RefreshDecide(p)
    \/ \E p \in Procs : RefreshUser(p)
    \/ \E p \in Procs : RefreshCreate(p)
    \/ \E p \in Procs : RefreshSign(p)

SpecC == Init /\ [][NextC]_vars

\* Two request handlers running the token flows with their store accesses
\* interleaved, for the account InitT holds
NextF ==
    \/ \E p \in Procs, m \in mailed : VerifyFind(p, m.raw)
    \/ \E p \in Procs : VerifyWrite(p)
    \/ \E p \in Procs, m \in mailed : ResetFind(p, m.raw)
    \/ \E p \in Procs, w \in ResetPasswords : ResetWrite(p, w)
    \/ \E p \in Procs, e \in TimedEmails : ResendFind(p, e)
    \/ \E p \in Procs : ResendDelete(p)
    \/ \E p \in Procs : ResendCreate(p)
    \/ \E p \in Procs, e \in TimedEmails : RequestFind(p, e)
    \/ \E p \in Procs : RequestDelete(p)
    \/ \E p \in Procs : RequestCreate(p)
    \/ FlowTick

SpecF == InitT /\ [][NextF]_vars

\* the users who call the task service
TaskUsers == {1, 2, 3}

\* three registered and verified users
SeedUsers ==
    {[id |-> 1, email |-> "a@x.io", passwordHash |-> hashPassword("pw1"),
     status |-> "ACTIVE", deletedAt |-> NullTime],
    [id |-> 2, email |-> "b@x.io", passwordHash |-> hashPassword("pw1"),
     status |-> "ACTIVE", deletedAt |-> NullTime],
    [id |-> 3, email |-> "c@x.io", passwordHash |-> hashPassword("pw1"),
     status |-> "ACTIVE", deletedAt |-> NullTime]}

\* Tasks of two groups: three verified users; user 1 created both groups and is
\* their ADMIN, user 2 is a MEMBER of group 1, user 3 is in no group;
\* assignments and email are enabled or not
InitK ==
    /\ users = SeedUsers
    /\ refreshTokens = {}
    /\ verificationTokens = {}
    /\ passwordResetTokens = {}
    /\ now = 0
    /\ nUser = 3 /\ nRefresh = 0 /\ nFamily = 0 /\ nOpaque = 0
    /\ issued = {}
    /\ mailed = {}
    /\ last = NoCall
    /\ scen = NoScen
    /\ pc = [p \in Procs |-> "idle"]
    /\ loc = [p \in Procs |-> NoLoc]
    /\ \E a, m \in BOOLEAN :
          config = [DefaultConfig EXCEPT !.ENABLE_ASSIGNMENTS = a, !.ENABLE_EMAIL = m]
    /\ groupMembers = {[userId |-> 1, groupId |-> 1, role |-> "ADMIN"],
                       [userId |-> 2, groupId |-> 1, role |-> "MEMBER"],
                       [userId |-> 1, groupId |-> 2, role |-> "ADMIN"]}
    /\ tasks = {}
    /\ nTask = 0
    /\ fpc = [p \in Procs |-> "idle"]
    /\ floc = [p \in Procs |-> NoFlow]
    /\ used = {}
    /\ jobs = {}
    /\ groups = {[id |-> 1, name |-> "n1", createdById |-> 1],
                  [id |-> 2, name |-> "n1", createdById |-> 1]}
    /\ nGroup = 2
    /\ gpc = [p \in Procs |-> "idle"]
    /\ gloc = [p \in Procs |-> NoRemoval]
    /\ cookies = NoCookies
    /\ tpc = [p \in Procs |-> "idle"]
    /\ tloc = [p \in Procs |-> NoTaskLoc]

NextK ==
    \/ \E ti \in Titles, g \in Groups, a \in {0} \cup TaskUsers, u \in TaskUsers :
          CreateTask(ti, g, a, u)
    \/ \E k \in TaskIds, ti \in Titles, u \in TaskUsers : UpdateTask(k, ti, u)
    \/ \E k \in TaskIds, st \in TaskStatuses, u \in TaskUsers : UpdateTaskStatus(k, st, u)
    \/ \E k \in TaskIds, u \in TaskUsers : AcceptTask(k, u)
    \/ \E k \in TaskIds, a \in TaskUsers, u \in TaskUsers : AssignTask(k, a, u)
    \/ \E k \in TaskIds, u \in TaskUsers : DeleteTask(k, u)
    \/ \E k \in TaskIds, u \in TaskUsers : GetTask(k, u)
    \/ \E g \in Groups, u \in TaskUsers, pg \in Pages, l \in Limits : ListTasksByGroup(g, u, pg, l)

SpecK == InitK /\ [][NextK]_vars

\* Groups: three verified users and no group yet
InitG ==
    /\ users = SeedUsers
    /\ refreshTokens = {}
    /\ verificationTokens = {}
    /\ passwordResetTokens = {}
    /\ now = 0
    /\ nUser = 3 /\ nRefresh = 0 /\ nFamily = 0 /\ nOpaque = 0
    /\ issued = {}
    /\ mailed = {}
    /\ last = NoCall
    /\ scen = NoScen
    /\ pc = [p \in Procs |-> "idle"]
    /\ loc = [p \in Procs |-> NoLoc]
    /\ config = DefaultConfig
    /\ groupMembers = {}
    /\ tasks = {}
    /\ nTask = 0
    /\ fpc = [p \in Procs |-> "idle"]
    /\ floc = [p \in Procs |-> NoFlow]
    /\ used = {}
    /\ jobs = {}
    /\ groups = {}
    /\ nGroup = 0
    /\ gpc = [p \in Procs |-> "idle"]
    /\ gloc = [p \in Procs |-> NoRemoval]
    /\ cookies = NoCookies
    /\ tpc = [p \in Procs |-> "idle"]
    /\ tloc = [p \in Procs |-> NoTaskLoc]

GroupNames == {"n1"}

\* group calls that each run to completion before the next starts
NextG ==
    \/ \E n \in GroupNames, u \in TaskUsers : CreateGroup(n, u)
    \/ \E g \in Groups, t \in TaskUsers \cup {4}, r \in Roles, u \in TaskUsers :
          AddMember(g, t, r, u)
    \/ \E g \in Groups, t \in TaskUsers, u \in TaskUsers : RemoveMember(g, t, u)

SpecG == InitG /\ [][NextG]_vars


\* Concurrent removals: user 1 created group 1 and added user 2 as ADMIN and
\* user 3 as MEMBER; user 2 created group 2 and is its only member
InitGC ==
    /\ users = SeedUsers
    /\ refreshTokens = {}
    /\ verificationTokens = {}
    /\ passwordResetTokens = {}
    /\ now = 0
    /\ nUser = 3 /\ nRefresh = 0 /\ nFamily = 0 /\ nOpaque = 0
    /\ issued = {}
    /\ mailed = {}
    /\ last = NoCall
    /\ scen = NoScen
    /\ pc = [p \in Procs |-> "idle"]
    /\ loc = [p \in Procs |-> NoLoc]
    /\ config = DefaultConfig
    /\ groupMembers = {[userId |-> 1, groupId |-> 1, role |-> "ADMIN"],
                       [userId |-> 2, groupId |-> 1, role |-> "ADMIN"],
                       [userId |-> 3, groupId |-> 1, role |-> "MEMBER"],
                       [userId |-> 2, groupId |-> 2, role |-> "ADMIN"]}
    /\ tasks = {}
    /\ nTask = 0
    /\ fpc = [p \in Procs |-> "idle"]
    /\ floc = [p \in Procs |-> NoFlow]
    /\ used = {}
    /\ jobs = {}
    /\ groups = {[id |-> 1, name |-> "n1", createdById |-> 1],
                 [id |-> 2, name |-> "n1", createdById |-> 2]}
    /\ nGroup = 2
    /\ gpc = [p \in Procs |-> "idle"]
    /\ gloc = [p \in Procs |-> NoRemoval]
    /\ cookies = NoCookies
    /\ tpc = [p \in Procs |-> "idle"]
    /\ tloc = [p \in Procs |-> NoTaskLoc]

\* removeMember calls of two request handlers interleaved store call by store call
NextGC ==
    \/ \E p \in Procs, g \in Groups, t \in TaskUsers, u \in TaskUsers :
          RemoveAssert(p, g, t, u)
    \/ \E p \in Procs : RemoveFind(p)
    \/ \E p \in Procs : RemoveCount(p)
    \/ \E p \in Procs : RemoveDelete(p)

SpecGC == InitGC /\ [][NextGC]_vars

\* the users an operator soft-deletes while they hold memberships
Leavers == {3}

\* Administration: user 1 created group 1 and added user 2 as ADMIN and user 3
\* as MEMBER; group 2 does not exist
InitGA ==
    /\ users = SeedUsers
    /\ refreshTokens = {}
    /\ verificationTokens = {}
    /\ passwordResetTokens = {}
    /\ now = 0
    /\ nUser = 3 /\ nRefresh = 0 /\ nFamily = 0 /\ nOpaque = 0
    /\ issued = {}
    /\ mailed = {}
    /\ last = NoCall
    /\ scen = NoScen
    /\ pc = [p \in Procs |-> "idle"]
    /\ loc = [p \in Procs |-> NoLoc]
    /\ config = DefaultConfig
    /\ groupMembers = {[userId |-> 1, groupId |-> 1, role |-> "ADMIN"],
                       [userId |-> 2, groupId |-> 1, role |-> "ADMIN"],
                       [userId |-> 3, groupId |-> 1, role |-> "MEMBER"]}
    /\ tasks = {}
    /\ nTask = 0
    /\ fpc = [p \in Procs |-> "idle"]
    /\ floc = [p \in Procs |-> NoFlow]
    /\ used = {}
    /\ jobs = {}
    /\ groups = {[id |-> 1, name |-> "n1", createdById |-> 1]}
    /\ nGroup = 1
    /\ gpc = [p \in Procs |-> "idle"]
    /\ gloc = [p \in Procs |-> NoRemoval]
    /\ cookies = NoCookies
    /\ tpc = [p \in Procs |-> "idle"]
    /\ tloc = [p \in Procs |-> NoTaskLoc]

\* the group calls an ADMIN makes, each run to completion, and an account deletion
NextGA ==
    \/ \E g \in Groups, t \in TaskUsers \cup {4}, r \in Roles, u \in TaskUsers :
          AddMember(g, t, r, u)
    \/ \E g \in Groups, t \in TaskUsers, u \in TaskUsers : RemoveMember(g, t, u)
    \/ \E g \in Groups, n \in NewNames, u \in TaskUsers : UpdateGroup(g, n, u)
    \/ \E u \in Leavers : SoftDeleteUser(u)

SpecGA == InitGA /\ [][NextGA]_vars

\* One browser and one account: the account InitT holds logs in, is verified
\* and is suspended while the browser calls a group route and a task route
NextR ==
    \/ \E e \in TimedEmails, p \in RegisterPasswords : LoginUser(e, p)
    \/ ApplyCookies
    \/ \E m \in mailed : VerifyEmail(m.raw)
    \/ SuspendUser(1)
    \/ \E n \in GroupNames : CreateGroupRoute(n)
    \/ \E k \in TaskIds : GetTaskRoute(k)
    \/ Tick

SpecR == InitT /\ [][NextR]_vars

\* Tasks while the membership of group 1 changes: the two groups of InitK,
\* tasks created and assigned, members of group 1 added and removed
NextKM ==
    \/ \E g \in Groups, a \in {0} \cup TaskUsers, u \in TaskUsers :
          CreateTask("t1", g, a, u)
    \/ \E k \in TaskIds, a \in TaskUsers, u \in TaskUsers : AssignTask(k, a, u)
    \/ \E t \in TaskUsers, u \in TaskUsers : AddMember(1, t, "MEMBER", u)
    \/ \E t \in TaskUsers, u \in TaskUsers : RemoveMember(1, t, u)

SpecKM == InitK /\ [][NextKM]_vars

\* the statuses the concurrent status updates ask for
AskedStatuses == {"IN_PROGRESS", "CLOSED"}

\* Two request handlers running updateTaskStatus with their store accesses
\* interleaved, on a task user 1 created in group 1
NextKS ==
    \/ \E a \in {0, 2} : CreateTask("t1", 1, a, 1)
    \/ \E p \in Procs, k \in TaskIds, st \in AskedStatuses, u \in {1, 2} :
          StatusRead(p, k, st, u)
    \/ \E p \in Procs : StatusWrite(p)

SpecKS == InitK /\ [][NextKS]_vars

\* acceptTask and assignTask in two request handlers with their store accesses
\* interleaved, on a task user 1 created in group 1 and assigned
NextKA ==
    \/ \E a \in {1, 2} : CreateTask("t1", 1, a, 1)
    \/ \E p \in Procs, k \in TaskIds, u \in {1, 2} : AcceptRead(p, k, u)
    \/ \E p \in Procs : AcceptWrite(p)
    \/ \E p \in Procs, k \in TaskIds, a \in {1, 2}, u \in {1, 2} : AssignRead(p, k, a, u)
    \/ \E p \in Procs : AssignWrite(p)

SpecKA == InitK /\ [][NextKA]_vars

\* One browser with a session: the account of InitT has logged in at time 0
\* and the browser holds the cookies of that login
InitW ==
    /\ users = {[id |-> 1, email |-> "a@x.io", passwordHash |-> hashPassword("pw1"),
                 status |-> "UNVERIFIED", deletedAt |-> NullTime]}
    /\ refreshTokens = {RefreshRow(1, 1, 1, signRefreshToken(1, 1, 1, 0), 0)}
    /\ verificationTokens = {[id |-> 1, tokenHash |-> hashToken(1), userId |-> 1,
                              expiresAt |-> VerificationTokenTtl]}
    /\ passwordResetTokens = {}
    /\ now = 0
    /\ nUser = 1 /\ nRefresh = 1 /\ nFamily = 1 /\ nOpaque = 1
    /\ issued = {signRefreshToken(1, 1, 1, 0)}
    /\ mailed = {[kind |-> "verification", raw |-> 1]}
    /\ last = [NoCall EXCEPT !.op = "browser"]
    /\ scen = NoScen
    /\ pc = [p \in Procs |-> "idle"]
    /\ loc = [p \in Procs |-> NoLoc]
    /\ config = DefaultConfig
    /\ groupMembers = {}
    /\ tasks = {}
    /\ nTask = 0
    /\ fpc = [p \in Procs |-> "idle"]
    /\ floc = [p \in Procs |-> NoFlow]
    /\ used = {}
    /\ jobs = {}
    /\ groups = {}
    /\ nGroup = 0
    /\ gpc = [p \in Procs |-> "idle"]
    /\ gloc = [p \in Procs |-> NoRemoval]
    /\ cookies = [access_token |->
                     [token |-> signAccessToken(1, "a@x.io", "UNVERIFIED"),
                      exp |-> JWT_ACCESS_EXPIRY_SECONDS],
                  refresh_token |-> signRefreshToken(1, 1, 1, 0)]
    /\ tpc = [p \in Procs |-> "idle"]
    /\ tloc = [p \in Procs |-> NoTaskLoc]

\* The web client's requests refreshing the session, two at a time, with the
\* store accesses of the two refreshTokens calls interleaved
NextW ==
    \/ \E p \in Procs : ClientRefresh(p)
    \/ \E p \in Procs : RefreshDecide(p)
    \/ \E p \in Procs : RefreshUser(p)
    \/ \E p \in Procs : RefreshCreate(p)
    \/ \E p \in Procs : RefreshSign(p)
    \/ \E p \in Procs : RefreshReply(p)
    \/ Tick

SpecW == InitW /\ [][NextW]_vars

\* One browser logging in and out, and the refresh tokens it was given
\* presented afterwards
NextL ==
    \/ \E e \in TimedEmails, p \in RegisterPasswords : LoginUser(e, p)
    \/ ApplyCookies
    \/ LogoutRoute
    \/ \E t \in issued : RefreshTokens(t, 0)
    \/ Tick

SpecL == InitT /\ [][NextL]_vars

\* a minute of the clock: the next jobId window
Minute == 60 * TicksPerSecond

MinutePasses ==
    /\ now < MaxTime * Minute
    /\ now' = now + Minute
    /\ last' = [NoCall EXCEPT !.op = "tick"]
    /\ UNCHANGED <<db, nUser, nRefresh, nFamily, nOpaque, issued, mailed, scen, pc, loc, ext>>

\* The mailing routes with ENABLE_EMAIL on and the queue available. The state after
\* POST /api/v1/auth/register of one user at time 0: the users row, its
\* verification token and the job that carries it
InitQ ==
    /\ users = {[id |-> 1, email |-> "a@x.io", passwordHash |-> hashPassword("pw1"),
                 status |-> "UNVERIFIED", deletedAt |-> NullTime]}
    /\ refreshTokens = {}
    /\ verificationTokens =
          {[id |-> 1, tokenHash |-> generateOpaqueToken(1).hash, userId |-> 1,
            expiresAt |-> VerificationTokenTtl]}
    /\ passwordResetTokens = {}
    /\ now = 0
    /\ nUser = 1 /\ nRefresh = 0 /\ nFamily = 0 /\ nOpaque = 1
    /\ issued = {}
    /\ mailed = {[kind |-> "verification", raw |-> generateOpaqueToken(1).raw]}
    /\ last = NoCall
    /\ scen = NoScen
    /\ pc = [p \in Procs |-> "idle"]
    /\ loc = [p \in Procs |-> NoLoc]
    /\ config \in {c \in Configs : c.ENABLE_EMAIL}
    /\ groupMembers = {}
    /\ tasks = {}
    /\ nTask = 0
    /\ fpc = [p \in Procs |-> "idle"]
    /\ floc = [p \in Procs |-> NoFlow]
    /\ used = {}
    /\ jobs = {[jobId |-> <<"verification", "a@x.io", 0>>,
                payload |-> generateOpaqueToken(1).raw]}
    /\ groups = {}
    /\ nGroup = 0
    /\ gpc = [p \in Procs |-> "idle"]
    /\ gloc = [p \in Procs |-> NoRemoval]
    /\ cookies = NoCookies
    /\ tpc = [p \in Procs |-> "idle"]
    /\ tloc = [p \in Procs |-> NoTaskLoc]

NextQ ==
    \/ \E e \in Emails : ResendVerificationMail(e, "queued")
    \/ \E e \in Emails : ForgotPasswordRoute(e, "queued")
    \/ \E m \in mailed : VerifyEmail(m.raw)
    \/ Tick
    \/ MinutePasses

SpecQ == InitQ /\ [][NextQ]_vars

\* The two enumeration-sensitive endpoints under every configuration
InitE ==
    /\ users = {}
    /\ refreshTokens = {}
    /\ verificationTokens = {}
    /\ passwordResetTokens = {}
    /\ now = 0
    /\ nUser = 0 /\ nRefresh = 0 /\ nFamily = 0 /\ nOpaque = 0
    /\ issued = {}
    /\ mailed = {}
    /\ last = NoCall
    /\ scen = NoScen
    /\ pc = [p \in Procs |-> "idle"]
    /\ loc = [p \in Procs |-> NoLoc]
    /\ config \in Configs
    /\ groupMembers = {}
    /\ tasks = {}
    /\ nTask = 0
    /\ fpc = [p \in Procs |-> "idle"]
    /\ floc = [p \in Procs |-> NoFlow]
    /\ used = {}
    /\ jobs = {}
    /\ groups = {}
    /\ nGroup = 0
    /\ gpc = [p \in Procs |-> "idle"]
    /\ gloc = [p \in Procs |-> NoRemoval]
    /\ cookies = NoCookies
    /\ tpc = [p \in Procs |-> "idle"]
    /\ tloc = [p \in Procs |-> NoTaskLoc]

NextE ==
    \/ \E e \in Emails, p \in RegisterPasswords : RegisterUser(e, p)
    \/ \E m \in mailed : VerifyEmail(m.raw)
    \/ \E e \in Emails : ForgotPassword(e)
    \/ \E e \in Emails : ResendVerificationRoute(e)
    \/ \E u \in UserIds : SoftDeleteUser(u)

SpecE == InitE /\ [][NextE]_vars

\* Verification and reset tokens: issue, replace, consume and expire
NextV ==
    \/ \E e \in Emails, p \in RegisterPasswords : RegisterUser(e, p)
    \/ \E m \in mailed : VerifyEmail(m.raw)
    \/ \E e \in Emails : ResendVerification(e)
    \/ \E e \in Emails : RequestPasswordReset(e)
    \/ \E u \in UserIds : SuspendUser(u)
    \/ \E u \in UserIds : SoftDeleteUser(u)
    \/ Tick

SpecV == Init /\ [][NextV]_vars

\* Account status and sessions: the status of an account changes under its sessions
NextS ==
    \/ \E e \in Emails, p \in RegisterPasswords : RegisterUser(e, p)
    \/ \E m \in mailed : VerifyEmail(m.raw)
    \/ \E e \in Emails, p \in RegisterPasswords : LoginUser(e, p)
    \/ \E t \in issued : RefreshTokens(t, 0)
    \/ \E u \in UserIds : GetUserProfile(u)
    \/ \E u \in UserIds : SuspendUser(u)
    \/ \E u \in UserIds : SoftDeleteUser(u)

SpecS == Init /\ [][NextS]_vars

(* ---------------------------- claims --------------------------------- *)

Families == 1..(MaxRefresh + 1)

\* C1: whatever sequence of loginUser, refreshTokens, logoutUser and resetPassword
\* calls has run, each to completion, every refresh-token family holds at most
\* one row with revoked = false.
C1_OneLivePerFamily ==
    \A f \in Families : Cardinality(Live(refreshTokens, f)) <= 1

\* a rotation has happened: a family of two rows, the older revoked, the newer live
C1_Witness ==
    /\ last.op = "refresh" /\ last.res = "OK"
    /\ \E f \in Families :
          /\ Cardinality(Family(refreshTokens, f)) >= 2
          /\ Cardinality(Live(refreshTokens, f)) = 1

\* C2: two refreshTokens calls presenting the same live token, their store accesses
\* interleaved: at most one returns a new pair, no family ends up with two
\* non-revoked rows, and no successor exists while the presented row is non-revoked.
C2_AtomicRotation ==
    /\ \A f \in Families : Cardinality(Live(refreshTokens, f)) <= 1
    /\ \A p, q \in Procs :
          (/\ p # q
           /\ pc[p] = "done" /\ pc[q] = "done"
           /\ loc[p].tok = loc[q].tok
           /\ loc[p].res = "OK") => loc[q].res # "OK"
    /\ \A p \in Procs :
          pc[p] \in {"sign", "done"} /\ loc[p].recId # 0 =>
             \A r \in refreshTokens : r.id = loc[p].stored.id => r.revoked

\* the stored row a presented token matches, if any
StoredFor(tok) == FindRefresh(refreshTokens, hashToken(tok), tok.sub)

\* tok is live: stored, not revoked, its signature and exp verify at time tv and
\* its row is unexpired at time tc
IsLive(tok, tv, tc) ==
    /\ verifyRefreshToken(tok, tv)
    /\ \E r \in StoredFor(tok) : ~r.revoked /\ r.expiresAt >= tc

UserPresent(id) == \E u \in users : u.id = id /\ u.deletedAt = NullTime

AllRevoked(rt, f) == \A r \in rt : r.family = f => r.revoked

\* C3 as stated: for every live T1 the first refreshTokens(T1) succeeds, the second
\* refreshTokens(T1) fails with TOKEN_REUSE and so does a following refreshTokens(T2)
\* (the three calls made while the tokens' exp still verifies).
C3_Original ==
    [][\A t \in issued, d \in Latencies :
          last'.op = "refresh" /\ RefreshTokens(t, d) =>
             /\ IsLive(t, now, now') => last'.res = "OK"
             /\ scen.stage = 1 /\ t = scen.t1 /\ verifyRefreshToken(t, now) =>
                   last'.res = "TOKEN_REUSE"
             /\ scen.stage = 2 /\ t = scen.t2 /\ verifyRefreshToken(t, now) =>
                   last'.res = "TOKEN_REUSE"]_vars

\* C3 (amended): for every live T1 whose user exists and is not soft-deleted the
\* first refreshTokens(T1) succeeds and returns T2 of the same family; a second
\* refreshTokens(T1) made while T1 still verifies fails with TOKEN_REUSE (401) and
\* leaves every row of the family revoked; a following refreshTokens(T2) made
\* while T2 still verifies fails with TOKEN_REUSE too.
C3_ReplayRevokesFamily ==
    [][\A t \in issued, d \in Latencies :
          last'.op = "refresh" /\ RefreshTokens(t, d) =>
             /\ IsLive(t, now, now') /\ UserPresent(t.sub) =>
                   /\ last'.res = "OK"
                   /\ \E t2 \in issued' \ issued :
                         /\ t2.family = t.family
                         /\ scen' = [stage |-> 1, t1 |-> t, t2 |-> t2]
             /\ scen.stage = 1 /\ t = scen.t1 /\ verifyRefreshToken(t, now) =>
                   /\ last'.res = "TOKEN_REUSE" /\ last'.status = 401
                   /\ AllRevoked(refreshTokens', t.family)
                   /\ scen'.stage = 2
             /\ scen.stage = 2 /\ t = scen.t2 /\ verifyRefreshToken(t, now) =>
                   /\ last'.res = "TOKEN_REUSE" /\ last'.status = 401]_vars

\* T1 was rotated to T2, T1 was replayed, and the replay of T2 was refused
C3_Witness ==
    /\ scen.stage = 3
    /\ last.op = "refresh" /\ last.res = "TOKEN_REUSE"
    /\ \E r \in StoredFor(scen.t2) : r.revoked

\* C4 as stated: once every token of a family is revoked no call leaves a
\* non-revoked token in the family, and every refreshTokens presenting a token
\* issued in it fails with TOKEN_REUSE.
C4_Original ==
    [][\A f \in Families :
          Family(refreshTokens, f) # {} /\ AllRevoked(refreshTokens, f) =>
             /\ AllRevoked(refreshTokens', f)
             /\ \A t \in issued, d \in Latencies :
                   last'.op = "refresh" /\ t.family = f /\ RefreshTokens(t, d) =>
                      last'.res = "TOKEN_REUSE"]_vars

\* C4 (amended): once every token of a family is revoked no call leaves a
\* non-revoked token in the family; a refreshTokens presenting a token issued in
\* it fails with TOKEN_REUSE while the token's exp verifies and with INVALID_TOKEN
\* afterwards; a later loginUser puts its live token into another family.
C4_RevokedIsTerminal ==
    [][\A f \in Families :
          Family(refreshTokens, f) # {} /\ AllRevoked(refreshTokens, f) =>
             /\ AllRevoked(refreshTokens', f)
             /\ \A t \in issued, d \in Latencies :
                   last'.op = "refresh" /\ t.family = f /\ RefreshTokens(t, d) =>
                      /\ last'.res = IF verifyRefreshToken(t, now)
                                     THEN "TOKEN_REUSE" ELSE "INVALID_TOKEN"
                      /\ issued' = issued
             /\ \A r \in refreshTokens' \ refreshTokens : r.family # f]_vars

\* a family is revoked, its replay was refused, and a login opened a live family
C4_Witness ==
    /\ last.op = "login" /\ last.res = "OK"
    /\ \E f, g \in Families :
          /\ Cardinality(Family(refreshTokens, f)) >= 2
          /\ AllRevoked(refreshTokens, f)
          /\ Live(refreshTokens, g) # {}
          /\ \A r \in Family(refreshTokens, f), q \in Live(refreshTokens, g) : r.id < q.id

\* rows of rt that tab' holds unchanged
Kept(rows, after) == \A r \in rows : r \in after

\* C5: refreshTokens given a token that verifies but whose hash matches no stored
\* row of the claimed user fails with TOKEN_REUSE (401), leaves every stored row
\* of the token's family revoked, and leaves the rows of other families as they were.
C5_UnknownHashIsReuse ==
    [][\A t \in PresentableTokens :
          (/\ last'.op = "refresh"
           /\ RefreshTokens(t, 0)
           /\ verifyRefreshToken(t, now)
           /\ StoredFor(t) = {}) =>
             /\ last'.res = "TOKEN_REUSE" /\ last'.status = 401
             /\ AllRevoked(refreshTokens', t.family)
             /\ Kept({r \in refreshTokens : r.family # t.family}, refreshTokens')
             /\ issued' = issued]_vars

\* a verified token without a stored row was presented and refused as reuse
C5_Witness ==
    /\ last.op = "refresh" /\ last.branch = "NOT_FOUND" /\ last.res = "TOKEN_REUSE"
    /\ \E t \in issued : verifyRefreshToken(t, now) /\ StoredFor(t) = {}

\* the family whose rows logoutUser(tok, userId) revokes; 0 when it revokes none
LogoutFamily(tok, userId) ==
    LET found == FindRefresh(refreshTokens, hashToken(tok), userId)
    IN IF tok = NoToken \/ found = {} THEN 0 ELSE (CHOOSE r \in found : TRUE).family

\* C6: a successful loginUser creates one row, in a family no earlier row or token
\* belongs to; the family revocation of reuse detection and of logoutUser leaves
\* every row of every other family, of the same or another user, unchanged.
C6_FamiliesIndependent ==
    [][/\ \A e \in Emails, p \in Passwords :
             last'.op = "login" /\ last'.res = "OK" /\ LoginUser(e, p) =>
                /\ Cardinality(refreshTokens' \ refreshTokens) = 1
                /\ Kept(refreshTokens, refreshTokens')
                /\ \A r \in refreshTokens' \ refreshTokens :
                      /\ ~r.revoked
                      /\ Family(refreshTokens, r.family) = {}
                      /\ \A t \in issued : t.family # r.family
       /\ \A t \in PresentableTokens :
             last'.res = "TOKEN_REUSE" /\ RefreshTokens(t, 0) =>
                Kept({r \in refreshTokens : r.family # t.family}, refreshTokens')
       /\ \A t \in issued \cup {NoToken}, u \in UserIds :
             last'.op = "logout" /\ LogoutUser(t, u) =>
                Kept({r \in refreshTokens : r.family # LogoutFamily(t, u)},
                     refreshTokens')]_vars

\* one family was revoked after a replay while another family of the same user
\* and a family of another user stayed live
C6_Witness ==
    /\ last.op = "refresh" /\ last.res = "TOKEN_REUSE"
    /\ \E r1, r2, r3 \in refreshTokens :
          /\ r1.revoked /\ ~r2.revoked /\ ~r3.revoked
          /\ r1.userId = r2.userId /\ r1.family # r2.family
          /\ r3.userId # r1.userId

\* the stored reset token a raw token matches
StoredReset(rawToken) == {r \in passwordResetTokens : r.tokenHash = hashToken(rawToken)}

PasswordOf(us, id) == {u.passwordHash : u \in {v \in us : v.id = id}}

\* C7: a successful resetPassword replaces the user's passwordHash, deletes the
\* presented reset token and revokes every refresh token of the user, in all
\* families, in one step; refresh tokens of other users are unchanged; and no
\* step changes a passwordHash without the other two effects.
C7_ResetIsAtomic ==
    [][/\ \A m \in mailed, p \in ResetPasswords :
             last'.op = "resetPassword" /\ last'.res = "OK" /\ ResetPassword(m.raw, p) =>
                \E stored \in StoredReset(m.raw) :
                   /\ PasswordOf(users', stored.userId) = {hashPassword(p)}
                   /\ stored \notin passwordResetTokens'
                   /\ \A r \in refreshTokens' : r.userId = stored.userId => r.revoked
                   /\ Kept({r \in refreshTokens : r.userId # stored.userId}, refreshTokens')
                   /\ Kept({u \in users : u.id # stored.userId}, users')
                   /\ Cardinality(refreshTokens') = Cardinality(refreshTokens)
       /\ \A u \in users, v \in users' :
             u.id = v.id /\ u.passwordHash # v.passwordHash =>
                /\ \E r \in passwordResetTokens \ passwordResetTokens' : r.userId = u.id
                /\ \A r \in refreshTokens' : r.userId = u.id => r.revoked]_vars

\* a reset went through: the password is the new one, two families of the user
\* are revoked and another user's token is still live
C7_Witness ==
    /\ last.op = "resetPassword" /\ last.res = "OK"
    /\ \E u \in users, r1, r2, r3 \in refreshTokens :
          /\ u.passwordHash = hashPassword("pw2")
          /\ r1.userId = u.id /\ r2.userId = u.id /\ r1.family # r2.family
          /\ r1.revoked /\ r2.revoked
          /\ r3.userId # u.id /\ ~r3.revoked

\* row r as logoutUser must leave it when it revokes family f
AfterLogout(r, f) == IF r.family = f THEN [r EXCEPT !.revoked = TRUE] ELSE r

\* C8: logoutUser always completes without error; with no token, or with a token
\* that matches no stored row of the calling user, it changes no stored row; with
\* a token stored for the calling user it marks every row of that token's family
\* revoked and changes nothing else.
C8_LogoutBestEffort ==
    [][\A t \in issued \cup {NoToken}, u \in UserIds :
          last'.op = "logout" /\ LogoutUser(t, u) =>
             /\ last'.res = "OK"
             /\ refreshTokens' = {AfterLogout(r, LogoutFamily(t, u)) : r \in refreshTokens}
             /\ t # NoToken /\ (\E r \in refreshTokens :
                                   r.tokenHash = hashToken(t) /\ r.userId = u) =>
                   LogoutFamily(t, u) = t.family
             /\ UNCHANGED <<users, verificationTokens, passwordResetTokens, issued>>]_vars

\* a logout with a stored token revoked a family of two rows
C8_Witness ==
    /\ last.op = "logout" /\ last.branch = "FAMILY_REVOKED"
    /\ \E f \in Families :
          /\ Cardinality(Family(refreshTokens, f)) >= 2
          /\ AllRevoked(refreshTokens, f)

WrongPassword(email, password) ==
    \A u \in UserByEmail(email) : ~verifyPassword(u.passwordHash, password)

\* C9 as stated: loginUser with an unknown email and loginUser with an existing
\* user's email and a wrong password produce the same error.
C9_Original ==
    \A e1, e2 \in Emails, p1, p2 \in Passwords :
       (/\ UserByEmail(e1) = {}
        /\ UserByEmail(e2) # {}
        /\ WrongPassword(e2, p2)) =>
          Response(LoginCheck(e1, p1)) = Response(LoginCheck(e2, p2))

\* C9 (amended): loginUser with an unknown email and loginUser with the email of
\* an existing user that is neither soft-deleted nor SUSPENDED and a wrong password
\* produce the same error: INVALID_CREDENTIALS, "Invalid email or password", 401.
C9_SameErrorForUnknownAndWrong ==
    \A e1, e2 \in Emails, p1, p2 \in Passwords :
       (/\ UserByEmail(e1) = {}
        /\ \E u \in UserByEmail(e2) : u.deletedAt = NullTime /\ u.status # "SUSPENDED"
        /\ WrongPassword(e2, p2)) =>
          /\ Response(LoginCheck(e1, p1)) = Response(LoginCheck(e2, p2))
          /\ Response(LoginCheck(e1, p1)) =
                [status |-> 401, title |-> "INVALID_CREDENTIALS",
                 detail |-> "Invalid email or password"]

\* a login was refused while one email is unknown and another belongs to a user
\* with a password who is neither deleted nor suspended
C9_Witness ==
    /\ last.op = "login" /\ last.res = "INVALID_CREDENTIALS"
    /\ \E e1, e2 \in Emails :
          /\ UserByEmail(e1) = {}
          /\ \E u \in UserByEmail(e2) :
                /\ u.deletedAt = NullTime /\ u.status # "SUSPENDED"
                /\ u.passwordHash # NullHash

\* C10: loginUser rejects a soft-deleted account with ACCOUNT_DELETED and a
\* SUSPENDED (not deleted) account with ACCOUNT_SUSPENDED whatever the password.
C10_StatusBeforePassword ==
    \A e \in Emails, p \in Passwords : \A u \in UserByEmail(e) :
       /\ u.deletedAt # NullTime => LoginCheck(e, p).res = "ACCOUNT_DELETED"
       /\ u.deletedAt = NullTime /\ u.status = "SUSPENDED" =>
             LoginCheck(e, p).res = "ACCOUNT_SUSPENDED"


\* the users row with id id is soft-deleted
Deleted(id) == \E u \in users : u.id = id /\ u.deletedAt # NullTime

\* C11: the access token a successful refreshTokens returns carries the email and
\* the status the users row holds at that refresh.
C11_AccessTokenIsCurrent ==
    [][\A t \in issued :
          last'.op = "refresh" /\ last'.res = "OK" /\ RefreshTokens(t, 0) =>
             \E u \in users :
                /\ u.id = t.sub
                /\ last'.access = [sub |-> u.id, email |-> u.email, status |-> u.status]]_vars

\* a refresh succeeded for a user suspended after the family's login (loginUser
\* refuses a SUSPENDED user), and the access token says SUSPENDED
C11_Witness ==
    /\ last.op = "refresh" /\ last.res = "OK"
    /\ last.access.status = "SUSPENDED"

\* C12: for a user whose deletedAt is set, loginUser, refreshTokens and
\* getUserProfile fail, return no token and leave no new non-revoked
\* refresh-token row of that user.
C12_DeletedIsInert ==
    [][/\ \A e \in Emails, p \in RegisterPasswords :
             (/\ last'.op = "login" /\ LoginUser(e, p)
              /\ \E u \in UserByEmail(e) : u.deletedAt # NullTime) =>
                /\ last'.res # "OK"
                /\ issued' = issued /\ refreshTokens' = refreshTokens
       /\ \A t \in issued :
             last'.op = "refresh" /\ RefreshTokens(t, 0) /\ Deleted(t.sub) =>
                /\ last'.res # "OK"
                /\ issued' = issued
                /\ \A r \in refreshTokens' :
                      r.userId = t.sub /\ ~r.revoked => r \in refreshTokens
       /\ \A u \in UserIds :
             last'.op = "getUserProfile" /\ GetUserProfile(u) /\ Deleted(u) =>
                last'.res = "USER_NOT_FOUND" /\ last'.status = 404]_vars

\* a soft-deleted user presented a stored, non-revoked token and was refused
C12_Witness ==
    /\ last.op = "refresh" /\ last.res = "USER_NOT_FOUND"
    /\ \E u \in users : u.deletedAt # NullTime

\* C13: a refreshTokens call that fails without reuse being detected (with
\* INVALID_TOKEN, TOKEN_EXPIRED or any other error but TOKEN_REUSE) leaves every
\* refresh-token row unchanged and creates no successor.
C13_FailedRefreshChangesNothing ==
    [][\A t \in issued, d \in Latencies :
          (/\ last'.op = "refresh"
           /\ RefreshTokens(t, d)
           /\ last'.res \notin {"OK", "TOKEN_REUSE"}) =>
             refreshTokens' = refreshTokens /\ issued' = issued]_vars

\* the verification tokens stored for user id
VerificationOf(vt, id) == {r \in vt : r.userId = id}

\* the stored verification token a raw token matches
StoredVerification(rawToken) ==
    {r \in verificationTokens : r.tokenHash = hashToken(rawToken)}

\* the password-reset tokens stored for user id
ResetOf(prt, id) == {r \in prt : r.userId = id}

\* C14: in every reachable state, concurrent resendVerification and concurrent
\* requestPasswordReset calls included, each user has at most one stored
\* verification token and at most one stored password-reset token.
C14_OneTokenPerUser ==
    \A u \in UserIds :
       /\ Cardinality(VerificationOf(verificationTokens, u)) <= 1
       /\ Cardinality(ResetOf(passwordResetTokens, u)) <= 1

C17_SameReplyForKnownAndUnknown ==
    \A e1, e2 \in Emails :
       UserByEmail(e2) = {} =>
          /\ ResetEligible(e1) # {} /\ config.ENABLE_PASSWORD_RESET =>
                ForgotPasswordReply(config, RequestPasswordResetResult(e1)) =
                   ForgotPasswordReply(config, RequestPasswordResetResult(e2))
          /\ ResendEligible(e1) # {} =>
                ResendVerificationReply(config, ResendVerificationResult(e1)) =
                   ResendVerificationReply(config, ResendVerificationResult(e2))

\* C18: resendVerification stores a new verification token only for an existing
\* user whose status is UNVERIFIED, requestPasswordReset stores a new reset token
\* only for an existing user with deletedAt unset; in every other case the call
\* returns null and changes no stored token.
C18_IssueOnlyWhenEligible ==
    [][/\ \A e \in Emails :
             last'.op = "resendVerification" /\ ResendVerification(e) =>
                /\ passwordResetTokens' = passwordResetTokens
                /\ IF \E u \in UserByEmail(e) : u.status = "UNVERIFIED"
                   THEN /\ last'.token # 0
                        /\ \E r \in verificationTokens' \ verificationTokens :
                              /\ r.tokenHash = hashToken(last'.token)
                              /\ \E u \in UserByEmail(e) : u.id = r.userId
                   ELSE /\ last'.token = 0
                        /\ verificationTokens' = verificationTokens
       /\ \A e \in Emails :
             last'.op = "requestPasswordReset" /\ RequestPasswordReset(e) =>
                /\ verificationTokens' = verificationTokens
                /\ IF \E u \in UserByEmail(e) : u.deletedAt = NullTime
                   THEN /\ last'.token # 0
                        /\ \E r \in passwordResetTokens' \ passwordResetTokens :
                              /\ r.tokenHash = hashToken(last'.token)
                              /\ \E u \in UserByEmail(e) : u.id = r.userId
                   ELSE /\ last'.token = 0
                        /\ passwordResetTokens' = passwordResetTokens]_vars

\* resendVerification returned null for the email of an existing user (every
\* email is taken) while a verification token of some user stayed stored
C18_Witness ==
    /\ last.op = "resendVerification" /\ last.branch = "NO_USER" /\ last.token = 0
    /\ \A e \in Emails : UserByEmail(e) # {}
    /\ verificationTokens # {}

\* the transition table as the specification gives it
TransitionTable ==
    {<<"PENDING_ACCEPTANCE", "OPEN">>, <<"PENDING_ACCEPTANCE", "CLOSED">>,
     <<"OPEN", "IN_PROGRESS">>, <<"OPEN", "CLOSED">>,
     <<"IN_PROGRESS", "COMPLETED">>, <<"IN_PROGRESS", "OPEN">>, <<"IN_PROGRESS", "CLOSED">>,
     <<"COMPLETED", "CLOSED">>}

\* C19: for every pair (from, to) of task statuses and every group member as
\* caller, updateTaskStatus on a non-deleted task in status from succeeds and sets
\* status to to exactly when (from, to) is in the table; for every other pair it
\* fails with INVALID_TRANSITION (400) and leaves the task unchanged.
C19_TransitionTable ==
    [][\A k \in TaskIds, to \in TaskStatuses, u \in UserIds :
          last'.op = "updateTaskStatus" /\ UpdateTaskStatus(k, to, u) =>
             \A t \in tasks :
                (/\ t.id = k /\ t.deletedAt = NullTime
                 /\ \E m \in groupMembers : m.userId = u /\ m.groupId = t.groupId) =>
                   IF <<t.status, to>> \in TransitionTable
                   THEN /\ last'.res = "OK"
                        /\ tasks' = (tasks \ {t}) \cup {[t EXCEPT !.status = to]}
                   ELSE /\ last'.res = "INVALID_TRANSITION" /\ last'.status = 400
                        /\ tasks' = tasks]_vars

\* a task was taken to COMPLETED by updateTaskStatus
C19_Witness ==
    /\ last.op = "updateTaskStatus" /\ last.res = "OK"
    /\ \E t \in tasks : t.status = "COMPLETED"

\* C20: once a task's status is CLOSED no task operation changes it.
C20_ClosedIsTerminal ==
    [][\A t \in tasks, v \in tasks' :
          t.id = v.id /\ t.status = "CLOSED" => v.status = "CLOSED"]_vars

InGroup(g, u) == \E m \in groupMembers : m.groupId = g /\ m.userId = u

\* the task acceptTask(k, u) works on, when the caller gets past getTaskById
Reachable(k, u) ==
    {t \in tasks : t.id = k /\ t.deletedAt = NullTime /\ InGroup(t.groupId, u)}

\* the task acceptTask(k, u) works on, for any caller at all
Existing(k) == {t \in tasks : t.id = k /\ t.deletedAt = NullTime}

\* C22 as stated: acceptTask succeeds only for the assignee of a task in
\* PENDING_ACCEPTANCE and then sets OPEN and acceptedAt; any other user gets
\* FORBIDDEN, the assignee in another status gets INVALID_STATE, and a failed
\* call leaves the task unchanged.
C22_Original ==
    [][\A k \in TaskIds, u \in TaskUsers :
          last'.op = "acceptTask" /\ AcceptTask(k, u) =>
             \A t \in Existing(k) :
                /\ last'.res = "OK" =>
                      /\ t.assigneeId = u /\ t.status = "PENDING_ACCEPTANCE"
                      /\ tasks' = (tasks \ {t}) \cup
                                     {[t EXCEPT !.status = "OPEN", !.acceptedAt = now]}
                /\ t.assigneeId # u =>
                      last'.res = "FORBIDDEN" /\ last'.status = 403 /\ tasks' = tasks
                /\ t.assigneeId = u /\ t.status # "PENDING_ACCEPTANCE" =>
                      last'.res = "INVALID_STATE" /\ last'.status = 400 /\ tasks' = tasks]_vars

\* C22: the same for callers who are members of the task's group; a caller who
\* is not a member fails with NOT_A_MEMBER (403) before the assignee is looked
\* at, and the task is unchanged.
C22_AcceptHandshake ==
    [][\A k \in TaskIds, u \in TaskUsers :
          last'.op = "acceptTask" /\ AcceptTask(k, u) =>
             \A t \in Existing(k) :
                /\ last'.res = "OK" =>
                      /\ t.assigneeId = u /\ t.status = "PENDING_ACCEPTANCE"
                      /\ tasks' = (tasks \ {t}) \cup
                                     {[t EXCEPT !.status = "OPEN", !.acceptedAt = now]}
                      /\ now # NullTime
                /\ t \notin Reachable(k, u) =>
                      last'.res = "NOT_A_MEMBER" /\ last'.status = 403 /\ tasks' = tasks
                /\ t \in Reachable(k, u) /\ t.assigneeId # u =>
                      last'.res = "FORBIDDEN" /\ last'.status = 403 /\ tasks' = tasks
                /\ t \in Reachable(k, u) /\ t.assigneeId = u
                      /\ t.status # "PENDING_ACCEPTANCE" =>
                      last'.res = "INVALID_STATE" /\ last'.status = 400 /\ tasks' = tasks
                /\ t \in Reachable(k, u) /\ t.assigneeId = u
                      /\ t.status = "PENDING_ACCEPTANCE" => last'.res = "OK"]_vars

\* the assignee accepted: the task is OPEN with acceptedAt stamped
C22_Witness ==
    /\ last.op = "acceptTask" /\ last.res = "OK"
    /\ \E t \in tasks : t.status = "OPEN" /\ t.assigneeId # 0 /\ t.acceptedAt # NullTime

\* the task as a successful assignTask(k, a, u) leaves it
Assigned(t, a) ==
    [t EXCEPT !.assigneeId = a, !.status = "PENDING_ACCEPTANCE", !.acceptedAt = NullTime]

\* C23 as stated: a successful assignTask sets assigneeId, PENDING_ACCEPTANCE and
\* acceptedAt null from any status; it succeeds only with the flag on and a
\* target who is a member of the task's group, and otherwise fails with
\* FEATURE_DISABLED or NOT_A_MEMBER and leaves the task unchanged.
C23_Original ==
    [][\A k \in TaskIds, a \in TaskUsers, u \in TaskUsers :
          last'.op = "assignTask" /\ AssignTask(k, a, u) =>
             \A t \in Existing(k) :
                /\ last'.res = "OK" =>
                      /\ config.ENABLE_ASSIGNMENTS /\ InGroup(t.groupId, a)
                      /\ tasks' = (tasks \ {t}) \cup {Assigned(t, a)}
                /\ ~config.ENABLE_ASSIGNMENTS \/ ~InGroup(t.groupId, a) =>
                      /\ last'.res \in {"FEATURE_DISABLED", "NOT_A_MEMBER"}
                      /\ tasks' = tasks]_vars

\* C23: the same, with the error named by the first check that fails:
\* FEATURE_DISABLED (400) with the flag off; with it on, NOT_A_MEMBER (403) for a
\* caller outside the group, FORBIDDEN (403) for a member who is not the creator,
\* NOT_A_MEMBER (403) for the creator naming a target outside the group.
C23_AssignResets ==
    [][\A k \in TaskIds, a \in TaskUsers, u \in TaskUsers :
          last'.op = "assignTask" /\ AssignTask(k, a, u) =>
             \A t \in Existing(k) :
                /\ last'.res = "OK" =>
                      /\ config.ENABLE_ASSIGNMENTS /\ InGroup(t.groupId, a)
                      /\ tasks' = (tasks \ {t}) \cup {Assigned(t, a)}
                /\ last'.res # "OK" => tasks' = tasks
                /\ last'.res =
                      IF ~config.ENABLE_ASSIGNMENTS THEN "FEATURE_DISABLED"
                      ELSE IF ~InGroup(t.groupId, u) THEN "NOT_A_MEMBER"
                      ELSE IF t.createdById # u THEN "FORBIDDEN"
                      ELSE IF ~InGroup(t.groupId, a) THEN "NOT_A_MEMBER"
                      ELSE "OK"
                /\ last'.status = IF ~config.ENABLE_ASSIGNMENTS THEN 400
                                  ELSE IF last'.res = "OK" THEN 200 ELSE 403]_vars

\* the creator has assigned a task to themselves
C23_Witness ==
    /\ last.op = "assignTask" /\ last.res = "OK"
    /\ \E t \in tasks : /\ t.status = "PENDING_ACCEPTANCE"
                        /\ t.assigneeId = t.createdById
                        /\ last.rows = {t}

\* C24: createTask stores a task only when the creator is a member of the group
\* and, with an assignee, the flag is on and the assignee is a member too; the
\* stored task is OPEN without assignee or PENDING_ACCEPTANCE with the one
\* given; a failed check (NOT_A_MEMBER, FEATURE_DISABLED) creates no record.
C24_CreateChecks ==
    [][last'.op = "createTask" =>
          IF last'.res = "OK"
          THEN \E t \in tasks' \ tasks :
                  /\ tasks' = tasks \cup {t}
                  /\ \A v \in tasks : v.id # t.id
                  /\ InGroup(t.groupId, t.createdById)
                  /\ t.assigneeId # 0 =>
                        config.ENABLE_ASSIGNMENTS /\ InGroup(t.groupId, t.assigneeId)
                  /\ t.status = IF t.assigneeId = 0 THEN "OPEN" ELSE "PENDING_ACCEPTANCE"
                  /\ t.acceptedAt = NullTime /\ t.deletedAt = NullTime
                  /\ last'.rows = {t}
          ELSE /\ tasks' = tasks /\ nTask' = nTask
               /\ last'.res \in {"NOT_A_MEMBER", "FEATURE_DISABLED"}
               /\ \E ti \in Titles, g \in Groups, a \in {0} \cup TaskUsers, u \in TaskUsers :
                     /\ ~(InGroup(g, u) /\ (a # 0 => config.ENABLE_ASSIGNMENTS /\ InGroup(g, a)))
                     /\ last'.res = IF ~InGroup(g, u) THEN "NOT_A_MEMBER"
                                    ELSE IF ~config.ENABLE_ASSIGNMENTS THEN "FEATURE_DISABLED"
                                    ELSE "NOT_A_MEMBER"
                     /\ CreateTask(ti, g, a, u)]_vars

\* a task was created for an assignee; another call was refused as FEATURE_DISABLED
C24_Witness ==
    \/ /\ last.op = "createTask" /\ last.res = "OK"
       /\ \E t \in tasks : t.status = "PENDING_ACCEPTANCE" /\ last.rows = {t}
    \/ /\ last.op = "createTask" /\ last.res = "FEATURE_DISABLED" /\ tasks # {}

\* the step is a call of one of the six operations on task k by user u, or a
\* listing of group g by user u
TaskCall(k, u) ==
    \/ last'.op = "getTaskById" /\ GetTask(k, u)
    \/ last'.op = "updateTask" /\ \E ti \in Titles : UpdateTask(k, ti, u)
    \/ last'.op = "updateTaskStatus" /\ \E st \in TaskStatuses : UpdateTaskStatus(k, st, u)
    \/ last'.op = "acceptTask" /\ AcceptTask(k, u)
    \/ last'.op = "assignTask" /\ \E a \in TaskUsers : AssignTask(k, a, u)
    \/ last'.op = "deleteTask" /\ DeleteTask(k, u)

ListCall(g, u) == \E pg \in Pages, l \in Limits : ListTasksByGroup(g, u, pg, l)

TaskOps == {"getTaskById", "updateTask", "updateTaskStatus", "acceptTask",
            "assignTask", "deleteTask"}

\* listTasksByGroup by a user outside the group fails with NOT_A_MEMBER (403)
OutsidersList ==
    last'.op = "listTasksByGroup" =>
       /\ last'.res = "NOT_A_MEMBER" => last'.status = 403 /\ tasks' = tasks
       /\ \A g \in Groups, u \in TaskUsers :
             last'.res # "NOT_A_MEMBER" /\ ~InGroup(g, u) => ~ListCall(g, u)

\* what members read: getTaskById returns the task, a first page that is long
\* enough lists every non-deleted task of the group, and total counts them
MembersRead ==
    /\ \A k \in TaskIds, u \in TaskUsers :
          last'.op = "getTaskById" /\ GetTask(k, u) =>
             \A t \in Reachable(k, u) : last'.res = "OK" /\ last'.rows = {t}
    /\ \A g \in Groups, u \in TaskUsers, l \in Limits :
          (/\ last'.op = "listTasksByGroup" /\ last'.res # "NOT_A_MEMBER"
           /\ InGroup(g, u) /\ ListTasksByGroup(g, u, 1, l)) =>
             LET live == {t \in tasks : t.groupId = g /\ t.deletedAt = NullTime}
             IN /\ last'.res = "OK" /\ last'.total = Cardinality(live)
                /\ last'.rows \subseteq live
                /\ l >= Cardinality(live) => last'.rows = live

\* C25 as stated: every task operation on a non-deleted task by a user who is
\* not a member of its group fails with NOT_A_MEMBER (403) and leaves the task
\* unchanged, and every member can read every non-deleted task of the group.
C25_Original ==
    [][/\ \A k \in TaskIds, u \in TaskUsers :
             \A t \in Existing(k) :
                last'.op \in TaskOps /\ ~InGroup(t.groupId, u) /\ TaskCall(k, u) =>
                   last'.res = "NOT_A_MEMBER" /\ last'.status = 403 /\ tasks' = tasks
       /\ OutsidersList
       /\ MembersRead]_vars

\* C25: the same, except that assignTask with the assignment flag off fails with
\* FEATURE_DISABLED (400) for every caller, member or not.
C25_MembersOnly ==
    [][/\ \A k \in TaskIds, u \in TaskUsers :
             \A t \in Existing(k) :
                last'.op \in TaskOps /\ ~InGroup(t.groupId, u) /\ TaskCall(k, u) =>
                   /\ tasks' = tasks
                   /\ IF last'.op = "assignTask" /\ ~config.ENABLE_ASSIGNMENTS
                      THEN last'.res = "FEATURE_DISABLED" /\ last'.status = 400
                      ELSE last'.res = "NOT_A_MEMBER" /\ last'.status = 403
       /\ OutsidersList
       /\ MembersRead]_vars

\* a user outside the group was refused while the group holds a live task
C25_Witness ==
    /\ last.op \in TaskOps /\ last.res = "NOT_A_MEMBER"
    /\ \E t \in tasks : t.deletedAt = NullTime /\ t.groupId = 2

\* updateTaskStatus with a pair of the table succeeds for every member
AnyMemberDrivesStatus(k, u, t) ==
    \A st \in TaskStatuses :
        (/\ last'.op = "updateTaskStatus" /\ <<t.status, st>> \in TransitionTable
         /\ UpdateTaskStatus(k, st, u)) =>
            /\ last'.res = "OK"
            /\ tasks' = (tasks \ {t}) \cup {[t EXCEPT !.status = st]}

\* C26 as stated: updateTask, deleteTask and assignTask by a member who is not
\* the creator fail with FORBIDDEN (403) and leave the task unchanged, whereas
\* updateTaskStatus with a valid transition succeeds for any member.
C26_Original ==
    [][\A k \in TaskIds, u \in TaskUsers :
          \A t \in Reachable(k, u) :
             t.createdById # u =>
                /\ (/\ last'.op \in {"updateTask", "deleteTask", "assignTask"}
                    /\ TaskCall(k, u)) =>
                       last'.res = "FORBIDDEN" /\ last'.status = 403 /\ tasks' = tasks
                /\ AnyMemberDrivesStatus(k, u, t)]_vars

\* C26: the same, except that assignTask with the assignment flag off fails with
\* FEATURE_DISABLED (400), again leaving the task unchanged.
C26_CreatorOnly ==
    [][\A k \in TaskIds, u \in TaskUsers :
          \A t \in Reachable(k, u) :
             t.createdById # u =>
                /\ (/\ last'.op \in {"updateTask", "deleteTask", "assignTask"}
                    /\ TaskCall(k, u)) =>
                       /\ tasks' = tasks
                       /\ IF last'.op = "assignTask" /\ ~config.ENABLE_ASSIGNMENTS
                          THEN last'.res = "FEATURE_DISABLED" /\ last'.status = 400
                          ELSE last'.res = "FORBIDDEN" /\ last'.status = 403
                /\ AnyMemberDrivesStatus(k, u, t)]_vars

\* a member who did not create the task was refused; the task is still live
C26_Witness ==
    /\ last.op \in {"updateTask", "deleteTask", "assignTask"} /\ last.res = "FORBIDDEN"
    /\ \E t \in tasks : t.deletedAt = NullTime /\ t.groupId = 1

\* what deletion does and what holds of deleted tasks whatever is called: the
\* record stays as it is, and no listing returns or counts it
DeletedStays ==
    /\ last'.op = "deleteTask" /\ last'.res = "OK" =>
          \E t \in tasks :
             /\ t.deletedAt = NullTime
             /\ tasks' = (tasks \ {t}) \cup {[t EXCEPT !.deletedAt = DeletedTime]}
    /\ \A t \in tasks : t.deletedAt # NullTime => t \in tasks'
    /\ last'.op = "listTasksByGroup" /\ last'.res = "OK" =>
          /\ \A r \in last'.rows : r \in tasks /\ r.deletedAt = NullTime
          /\ \E g \in Groups :
                last'.total =
                   Cardinality({t \in tasks : t.groupId = g /\ t.deletedAt = NullTime})

\* C27 as stated: after a successful deleteTask the record exists with deletedAt
\* set, every later getTaskById, updateTask, updateTaskStatus, acceptTask,
\* assignTask and deleteTask on it fails with TASK_NOT_FOUND, no listing returns
\* or counts it, and nothing clears deletedAt.
C27_Original ==
    [][/\ DeletedStays
       /\ \A t \in tasks, u \in TaskUsers :
             (/\ t.deletedAt # NullTime /\ last'.op \in TaskOps
              /\ TaskCall(t.id, u)) =>
                last'.res = "TASK_NOT_FOUND" /\ last'.status = 404]_vars

\* C27: the same, except that assignTask with the assignment flag off fails with
\* FEATURE_DISABLED (400) before the task is looked up.
C27_DeletedIsGone ==
    [][/\ DeletedStays
       /\ \A t \in tasks, u \in TaskUsers :
             (/\ t.deletedAt # NullTime /\ last'.op \in TaskOps
              /\ TaskCall(t.id, u)) =>
                IF last'.op = "assignTask" /\ ~config.ENABLE_ASSIGNMENTS
                THEN last'.res = "FEATURE_DISABLED" /\ last'.status = 400
                ELSE last'.res = "TASK_NOT_FOUND" /\ last'.status = 404]_vars

\* a call on a deleted task was refused as not found
C27_Witness ==
    /\ last.res = "TASK_NOT_FOUND"
    /\ \E t \in tasks : t.deletedAt # NullTime

\* the row createTask(ti, g, a, u) stores
Created(ti, g, a, u) ==
    [id |-> nTask + 1, title |-> ti, status |-> "PENDING_ACCEPTANCE", groupId |-> g,
     createdById |-> u, assigneeId |-> a, acceptedAt |-> NullTime, deletedAt |-> NullTime]

\* C28: with email enabled, a createTask with an assignee and an assignTask whose
\* checks pass return the task and persist it in the same way whether the
\* enqueue adds the job, is rejected by the queue or fails in its lookup: the
\* call never fails and the task mutation is never undone or altered.
C28_EnqueueIsolated ==
    [][config.ENABLE_EMAIL /\ config.ENABLE_ASSIGNMENTS =>
          /\ \A ti \in Titles, g \in Groups, a \in TaskUsers, u \in TaskUsers :
                (/\ last'.op = "createTask" /\ InGroup(g, u) /\ InGroup(g, a)
                 /\ CreateTask(ti, g, a, u)) =>
                    /\ last'.res = "OK" /\ last'.status = 201
                    /\ last'.rows = {Created(ti, g, a, u)}
                    /\ tasks' = tasks \cup {Created(ti, g, a, u)}
                    /\ last'.branch # "queued" => jobs' = jobs
          /\ \A k \in TaskIds, a \in TaskUsers, u \in TaskUsers :
                \A t \in Reachable(k, u) :
                   (/\ last'.op = "assignTask" /\ t.createdById = u /\ InGroup(t.groupId, a)
                    /\ AssignTask(k, a, u)) =>
                       /\ last'.res = "OK" /\ last'.status = 200
                       /\ last'.rows = {Assigned(t, a)}
                       /\ tasks' = (tasks \ {t}) \cup {Assigned(t, a)}
                       /\ last'.branch # "queued" => jobs' = jobs]_vars

\* a task was assigned although the queue rejected the job
C28_Witness ==
    /\ last.op \in {"createTask", "assignTask"} /\ last.res = "OK"
    /\ last.branch \in {"queue_failed", "lookup_failed"}
    /\ \E t \in tasks : t.status = "PENDING_ACCEPTANCE" /\ last.rows = {t}

\* the ADMIN rows of a group
Admins(g) == {m \in groupMembers : m.groupId = g /\ m.role = "ADMIN"}

\* C29: when createGroup, addMember and removeMember each run to completion,
\* every existing group has at least one ADMIN in every reachable state;
\* createGroup makes the creator an ADMIN, removeMember on the only ADMIN fails
\* with LAST_ADMIN (400) and leaves membership unchanged, and removeMember on one
\* of two or more ADMINs succeeds.
C29_AlwaysAnAdmin ==
    /\ [](\A g \in groups : Admins(g.id) # {})
    /\ [][/\ last'.op = "createGroup" =>
                \E g \in groups' \ groups :
                   /\ groups' = groups \cup {g}
                   /\ groupMembers' = groupMembers \cup
                         {[userId |-> g.createdById, groupId |-> g.id, role |-> "ADMIN"]}
          /\ \A g \in Groups, t \in TaskUsers, u \in TaskUsers :
                (/\ last'.op = "removeMember"
                 /\ [userId |-> u, groupId |-> g, role |-> "ADMIN"] \in groupMembers
                 /\ [userId |-> t, groupId |-> g, role |-> "ADMIN"] \in groupMembers
                 /\ RemoveMember(g, t, u)) =>
                    IF Cardinality(Admins(g)) = 1
                    THEN /\ last'.res = "LAST_ADMIN" /\ last'.status = 400
                         /\ groupMembers' = groupMembers
                    ELSE /\ last'.res = "OK"
                         /\ groupMembers' = groupMembers \
                               {[userId |-> t, groupId |-> g, role |-> "ADMIN"]}]_vars

\* one of two ADMINs was removed; the group keeps the other
C29_Witness ==
    /\ last.op = "removeMember" /\ last.res = "OK"
    /\ \E g \in groups :
          /\ Cardinality(Admins(g.id)) = 1
          /\ \A m \in Admins(g.id) : m.userId # g.createdById

\* C30: with exactly two ADMINs in a group, two concurrent removeMember calls
\* that target one each can both pass the admin-count check and both delete,
\* leaving the group without ADMIN. A group loses its last ADMIN only in this
\* way: by the delete of a handler whose count was read before another removal
\* took an ADMIN away, so that it counted more ADMINs than the store now holds.
C30_ZeroAdminsOnlyByRace ==
    [][\A g \in groups :
          Admins(g.id) # {} /\ Admins(g.id)' = {} =>
             \E p \in Procs :
                /\ gpc[p] = "delete" /\ gpc'[p] = "done" /\ gloc'[p].res = "OK"
                /\ gloc[p].groupId = g.id /\ gloc[p].role = "ADMIN"
                /\ gloc[p].adminCount > 1
                /\ gloc[p].adminCount > Cardinality(Admins(g.id))]_vars

\* both removals succeeded and group 1, which had two ADMINs, has none
C30_Witness ==
    /\ \A p \in Procs : gpc[p] = "done" /\ gloc[p].res = "OK"
    /\ Admins(1) = {}
    /\ \E g \in groups : g.id = 1

\* the user holds an ADMIN row of the group
AdminOf(g, u) == [userId |-> u, groupId |-> g, role |-> "ADMIN"] \in groupMembers

\* the users row exists and is not soft-deleted
Alive(id) == \E u \in users : u.id = id /\ u.deletedAt = NullTime

\* no two membership rows for the same (userId, groupId)
OneRowPerMember ==
    \A m1, m2 \in groupMembers :
       m1.userId = m2.userId /\ m1.groupId = m2.groupId => m1 = m2

\* a call of addMember, removeMember or updateGroup by a user who is not an
\* ADMIN of the group fails with NOT_ADMIN (403) and changes nothing
NonAdminRefused ==
    \A g \in Groups, u \in TaskUsers :
       ~AdminOf(g, u) =>
          \/ /\ last'.res = "NOT_ADMIN" /\ last'.status = 403
             /\ groupMembers' = groupMembers /\ groups' = groups
          \/ ~(\/ /\ last'.op = "addMember"
                  /\ \E t \in TaskUsers \cup {4}, r \in Roles : AddMember(g, t, r, u)
               \/ /\ last'.op = "removeMember"
                  /\ \E t \in TaskUsers : RemoveMember(g, t, u)
               \/ /\ last'.op = "updateGroup"
                  /\ \E n \in NewNames : UpdateGroup(g, n, u))

\* C31 as stated: an ADMIN's addMember for a target who is already a member
\* fails with ALREADY_MEMBER (409), whatever the state of the target's account.
C31_Original ==
    /\ [](OneRowPerMember)
    /\ [][/\ NonAdminRefused
          /\ \A g \in Groups, t \in TaskUsers, r \in Roles, u \in TaskUsers :
                (/\ last'.op = "addMember"
                 /\ AdminOf(g, u) /\ InGroup(g, t)
                 /\ AddMember(g, t, r, u)) =>
                    /\ last'.res = "ALREADY_MEMBER" /\ last'.status = 409
                    /\ groupMembers' = groupMembers]_vars

\* C31: addMember, removeMember and updateGroup called by a user who has no
\* membership in the group or whose role is not ADMIN fail with NOT_ADMIN (403)
\* and leave the group's membership rows and fields unchanged. addMember by an
\* ADMIN for a target who is already a member fails with ALREADY_MEMBER (409)
\* when the target's account is not soft-deleted and with USER_NOT_FOUND (404)
\* when it is; either way no membership row is written, and no state holds two
\* membership rows for the same (userId, groupId).
C31_NotAdminRefused ==
    /\ [](OneRowPerMember)
    /\ [][/\ NonAdminRefused
          /\ \A g \in Groups, t \in TaskUsers, r \in Roles, u \in TaskUsers :
                (/\ last'.op = "addMember"
                 /\ AdminOf(g, u) /\ InGroup(g, t)
                 /\ AddMember(g, t, r, u)) =>
                    /\ IF Alive(t)
                       THEN last'.res = "ALREADY_MEMBER" /\ last'.status = 409
                       ELSE last'.res = "USER_NOT_FOUND" /\ last'.status = 404
                    /\ groupMembers' = groupMembers]_vars

\* an ADMIN's addMember met an existing membership, and every pair of user and
\* group still has at most one row
C31_Witness ==
    /\ last.op = "addMember" /\ last.res = "ALREADY_MEMBER" /\ last.status = 409
    /\ \E m \in groupMembers : m.role = "MEMBER" /\ Alive(m.userId)
    /\ OneRowPerMember

\* the access_token cookie verifies now: it holds a token whose exp lies ahead
CookieVerifies ==
    /\ cookies.access_token.token # NoAccess
    /\ now \div TicksPerSecond < cookies.access_token.exp

\* the reply came from requireAuth or requireVerified, not from the handler
Rejected(call) == call.res \in {"Unauthorized", "Forbidden"}

\* C32: every task and group route admits a request exactly when its access
\* token verifies and the status claim inside the token is ACTIVE, whatever the
\* users row says: a token that does not verify is answered 401, a verifying
\* token whose status claim is not ACTIVE is answered 403, and every other
\* request reaches the handler, which acts for the token's sub.
C32_AdmitByTokenClaim ==
    [][last'.op \in {"createGroup", "getTaskById"} =>
          IF ~CookieVerifies
          THEN Rejected(last') /\ last'.status = 401 /\ UNCHANGED <<groups, groupMembers>>
          ELSE IF cookies.access_token.token.status # "ACTIVE"
          THEN Rejected(last') /\ last'.status = 403 /\ UNCHANGED <<groups, groupMembers>>
          ELSE /\ ~Rejected(last')
               /\ \A g \in groups' \ groups :
                     g.createdById = cookies.access_token.token.sub]_vars

\* the account was suspended after its token was issued, and the route still
\* created a group for it
C32_Witness ==
    /\ last.op = "createGroup" /\ last.res = "OK"
    /\ \E u \in users : u.status = "SUSPENDED" /\ u.id = cookies.access_token.token.sub
    /\ \E g \in groups : g.createdById = cookies.access_token.token.sub

\* C33: a task that has an assignee leaves PENDING_ACCEPTANCE for OPEN only
\* through acceptTask called by that assignee, so in every reachable state a task
\* with an assignee and status OPEN, IN_PROGRESS or COMPLETED has an acceptedAt.
C33_AcceptedBeforeOpen ==
    /\ [](\A t \in tasks :
             t.assigneeId # 0 /\ t.status \in {"OPEN", "IN_PROGRESS", "COMPLETED"} =>
                t.acceptedAt # NullTime)
    /\ [][\A t \in tasks, v \in tasks' :
             (/\ t.id = v.id /\ t.assigneeId # 0
              /\ t.status = "PENDING_ACCEPTANCE" /\ v.status = "OPEN") =>
                last'.op = "acceptTask"]_vars

\* C34: in every state reachable through createTask, assignTask, addMember and
\* removeMember, the assigneeId of every non-deleted task that has one refers
\* to a current member of the task's group.
C34_AssigneeIsMember ==
    \A t \in tasks :
       t.deletedAt = NullTime /\ t.assigneeId # 0 => InGroup(t.groupId, t.assigneeId)

\* C35: when two updateTaskStatus calls on the same task run concurrently, each
\* pair of consecutive values the stored status takes is a transition of the
\* table; in particular a task whose stored status has become CLOSED is never
\* overwritten with IN_PROGRESS or OPEN by a call that read the status before
\* the close.
C35_ConcurrentStatusFollowsTable ==
    [][\A t \in tasks, v \in tasks' :
          t.id = v.id /\ t.status # v.status => <<t.status, v.status>> \in TransitionTable]_vars

\* C36: when acceptTask by the current assignee runs concurrently with assignTask
\* re-assigning the task to another user, no interleaving ends with the task
\* assigned to the other user in status OPEN with acceptedAt set: the accept that
\* sets acceptedAt is made by the user who is the task's assignee in the state
\* it leaves.
C36_AcceptedByAssignee ==
    [][\A p \in Procs :
          tpc[p] = "accept" /\ tpc'[p] = "done" =>
             \A v \in tasks' :
                (v.id = tloc[p].taskId /\ v.status = "OPEN" /\ v.acceptedAt # NullTime) =>
                   v.assigneeId = tloc[p].userId]_vars

\* the state SpecW starts in
SessionEstablished ==
    /\ cookies.refresh_token = signRefreshToken(1, 1, 1, 0)
    /\ cookies.access_token.token = signAccessToken(1, "a@x.io", "UNVERIFIED")
    /\ refreshTokens = {RefreshRow(1, 1, 1, signRefreshToken(1, 1, 1, 0), 0)}
    /\ issued = {signRefreshToken(1, 1, 1, 0)} /\ now = 0

\* C37: a single web client holding one valid session keeps it when two of its
\* requests receive 401 at the same time and both invoke attemptRefresh with
\* the same refresh cookie: no interleaving of the two refresh requests ends
\* with the family revoked and the client's cookies cleared.
C37_DoubleRefreshKeepsSession ==
    ~(/\ \A p \in Procs : pc[p] = "idle"
      /\ cookies = NoCookies
      /\ \A r \in refreshTokens : r.revoked)

\* C38: after a client whose cookies were set by setAuthCookies logs out through
\* POST /api/v1/auth/logout, the refresh token it held is revoked on the server:
\* a later refreshTokens call presenting that token does not return a new token
\* pair.
C38_LogoutRevokesHeldToken ==
    /\ [](last.op = "logout" /\ last.res = "OK" /\ cookies.refresh_token # NoToken =>
             \A r \in refreshTokens :
                r.tokenHash = hashToken(cookies.refresh_token) => r.revoked)
    /\ [][(/\ last.op = "logout" /\ last.res = "OK" /\ cookies.refresh_token # NoToken
           /\ RefreshTokens(cookies.refresh_token, 0)) => last'.res # "OK"]_vars

\* the job the queue holds for a raw token of an email type
QueuedFor(type, tokenHash) ==
    {j \in jobs : j.jobId[1] = type /\ hashToken(j.payload) = tokenHash}

\* C39: with ENABLE_EMAIL on and the queue available, every time
\* resendVerification or requestPasswordReset replaces a user's token with a new
\* one, an email job carrying the new token is added to the queue, also when two
\* requests for the same recipient and type fall in one 60-second jobId window;
\* so a stored token is never one that was not handed to the queue.
C39_StoredTokenWasQueued ==
    /\ [](/\ \A r \in verificationTokens : QueuedFor("verification", r.tokenHash) # {}
          /\ \A r \in passwordResetTokens : QueuedFor("password-reset", r.tokenHash) # {})
    /\ [][last'.op \in {"resendVerification", "requestPasswordReset"} /\
             last'.branch = "ISSUED" =>
                \E j \in jobs' \ jobs : j.payload = last'.token]_vars

\* the users row of id is SUSPENDED and not soft-deleted
SuspendedUser(id) ==
    \E u \in users : u.id = id /\ u.status = "SUSPENDED" /\ u.deletedAt = NullTime

\* refresh token t has a stored row that is neither revoked nor expired
LiveToken(t) ==
    \E r \in refreshTokens :
        /\ r.tokenHash = hashToken(t) /\ r.userId = t.sub
        /\ ~r.revoked /\ r.expiresAt >= now

\* the non-revoked refresh-token rows of a user
OpenRows(rt, id) == {r \in rt : r.userId = id /\ ~r.revoked}

\* C40: refreshTokens does not check the user's status: a user suspended after
\* login who presents a live refresh token receives a new token pair whose access
\* token carries status SUSPENDED, while loginUser refuses that user and issues
\* nothing.
C40_RefreshIgnoresSuspension ==
    [][/\ \A t \in issued :
             (/\ last'.op = "refresh" /\ RefreshTokens(t, 0)
              /\ SuspendedUser(t.sub) /\ LiveToken(t)) =>
                /\ last'.res = "OK"
                /\ last'.access.status = "SUSPENDED"
                /\ \E n \in issued' \ issued :
                      \E r \in OpenRows(refreshTokens', t.sub) :
                         r.tokenHash = hashToken(n)
       /\ \A e \in Emails, p \in RegisterPasswords :
             (/\ last'.op = "login" /\ LoginUser(e, p)
              /\ \E u \in UserByEmail(e) : SuspendedUser(u.id)) =>
                /\ last'.res = "ACCOUNT_SUSPENDED"
                /\ issued' = issued /\ refreshTokens' = refreshTokens]_vars

\* a refresh has just succeeded for a user who is SUSPENDED, and the refresh
\* token it returned is live in the store
C40_Witness ==
    /\ last.op = "refresh" /\ last.res = "OK"
    /\ \E t \in issued :
          /\ SuspendedUser(t.sub) /\ LiveToken(t)
          /\ t.tokenId = nRefresh /\ nRefresh >= 2

====